---- MODULE Spec2Model ----
(***************************************************************************)
(* A model of the matching engine: the per-symbol OrderBook                *)
(* (src/src/core/order_book.cpp), the Order value (src/src/core/order.cpp) *)
(* and the MatchingEngine coordinator (src/src/core/matching_engine.cpp).  *)
(*                                                                         *)
(* Prices are integers (the source uses double; the matching kernel only   *)
(* compares prices and uses them as map keys).  A std::map is a            *)
(* function whose DOMAIN is the set of keys present; a std::queue is a     *)
(* sequence whose Head is front().                                         *)
(***************************************************************************)
EXTENDS Integers, Sequences, FiniteSets, TLC

\* ------------------------------------------------------------------------
\* Bounds of the model and program constants
\* ------------------------------------------------------------------------

\* addOrder calls one OrderBook accepts between two clear() calls
MaxOrders == 3

\* addOrder calls one book of the engine accepts
MaxEngineOrders == 2

\* callbacks of one kind the engine has registered at most
MaxCallbacks == 1

\* submitOrder calls per book, and callbacks of each kind, where the
\* callbacks of the engine are studied
MaxObservedOrders == 3
MaxObservers == 2

\* submitOrder calls accepted where symbols are added and removed
MaxProcessed == 3

\* addOrder calls, and the largest max_levels asked for, where the levels of
\* a book are listed
MaxLevelOrders == 2
MaxLevels == 3

\* orders handed to one book, and submitOrder calls accepted, where the
\* engine is called from several threads
MaxThreadOrders == 2

\* types.hpp.  Prices of the model are whole currency units: MIN_PRICE
\* (0.01 in the source) is the least whole price that isValidPrice accepts.
INVALID_ORDER_ID == 0
MARKET_PRICE == 0
MIN_PRICE == 1
MAX_PRICE == 1000000000
MIN_QUANTITY == 1
MAX_QUANTITY == 1000000000

\* matching_engine.hpp, EngineConfig: the default limits
DEFAULT_MAX_ORDER_PRICE == 1000000
DEFAULT_MAX_ORDER_QUANTITY == 1000000
DEFAULT_MAX_ORDERS_PER_SYMBOL == 10000
DEFAULT_MAX_SYMBOLS == 1000
MAX_SYMBOL_SIZE == 8

\* the inputs the model draws from
Ids == {1, 2}
Prices == {1, 2}
Quantities == {1, 2}
Sides == {"BUY", "SELL"}
Types == {"MARKET", "LIMIT"}

SymA == <<"A">>
SymB == <<"B">>

\* ------------------------------------------------------------------------
\* Helpers
\* ------------------------------------------------------------------------

Min(S) == CHOOSE x \in S : \A y \in S : x <= y
Max(S) == CHOOSE x \in S : \A y \in S : x >= y
MinOf(a, b) == IF a <= b THEN a ELSE b

\* std::map::erase(key)
MapErase(m, k) == [p \in DOMAIN m \ {k} |-> m[p]]
\* std::map::operator[](key) = v
MapPut(m, k, v) == [p \in DOMAIN m \cup {k} |-> IF p = k THEN v ELSE m[p]]

EmptyMap == [p \in {} |-> <<>>]

RECURSIVE SumSeq(_)
SumSeq(s) == IF s = <<>> THEN 0 ELSE Head(s) + SumSeq(Tail(s))

\* ------------------------------------------------------------------------
\* Order (order.hpp / order.cpp)
\* ------------------------------------------------------------------------

\* Order::Order: the validation of the constructor; an order that fails it
\* is never constructed (the constructor throws std::invalid_argument).
isValidPrice(price) == price >= MIN_PRICE /\ price <= MAX_PRICE
isValidQuantity(quantity) == quantity >= MIN_QUANTITY /\ quantity <= MAX_QUANTITY

OrderCtorOk(id, symbol, type, price, quantity) ==
    /\ id # INVALID_ORDER_ID
    /\ symbol # <<>>
    /\ isValidQuantity(quantity)
    /\ IF type = "MARKET" THEN price = MARKET_PRICE
       ELSE type = "LIMIT" /\ isValidPrice(price)

\* Order::Order: remaining_quantity_ starts at quantity_.  seq and filled are
\* history fields: the position of the order among the arrivals of its book
\* (0 while in transit) and the sum of the quantities of the trades that
\* involved this very order.
NewOrder(id, symbol, side, type, price, quantity) ==
    [id |-> id, symbol |-> symbol, side |-> side, type |-> type,
     price |-> price, quantity |-> quantity, remaining_quantity |-> quantity,
     seq |-> 0, filled |-> 0]

isMarketOrder(o) == o.type = "MARKET"
isLimitOrder(o) == o.type = "LIMIT"
isBuyOrder(o) == o.side = "BUY"
isFullyFilled(o) == o.remaining_quantity = 0

\* Order::fill: throws when fill_quantity exceeds the remainder (the order is
\* then left as it was), else decrements remaining_quantity_.
fill(o, fill_quantity) ==
    IF fill_quantity > o.remaining_quantity THEN o
    ELSE [o EXCEPT !.remaining_quantity = @ - fill_quantity]

\* canMatchWith with strict price comparisons
canMatchWith_strict(o, other) ==
    IF o.symbol # other.symbol THEN FALSE
    ELSE IF o.side = other.side THEN FALSE
    ELSE IF isMarketOrder(o) \/ isMarketOrder(other) THEN TRUE
    ELSE IF isBuyOrder(o) THEN o.price > other.price
    ELSE o.price < other.price

\* Order::canMatchWith
canMatchWith(o, other) ==
    IF o.symbol # other.symbol THEN FALSE
    ELSE IF o.side = other.side THEN FALSE
    ELSE IF isMarketOrder(o) \/ isMarketOrder(other) THEN TRUE
    ELSE IF isBuyOrder(o) THEN o.price >= other.price
    ELSE o.price <= other.price

\* ------------------------------------------------------------------------
\* OrderBook (order_book.hpp / order_book.cpp)
\* ------------------------------------------------------------------------

\* OrderBook::OrderBook: empty maps, next_trade_id_ = 0.  arrivals,
\* maxEmitted and lifecycle are history fields of the book: the addOrder
\* calls since construction or clear(), the largest trade id the book ever
\* emitted, and for each id the last thing that happened to a resting order
\* with that id: "none", "rested", "filled" (taken off the book by a fill),
\* "cancelled", or "resubmitted" (cancelled, and an order with that id was
\* handed to addOrder since without coming to rest).
NewOrderBook ==
    [bids |-> EmptyMap, asks |-> EmptyMap,
     order_locations_ |-> [i \in {} |-> <<>>],
     next_trade_id_ |-> 0,
     arrivals |-> 0, maxEmitted |-> 0,
     lifecycle |-> [i \in Ids |-> "none"]]

\* the program state of a book, without the history fields
BookState(b) ==
    [bids |-> b.bids, asks |-> b.asks,
     order_locations_ |-> b.order_locations_,
     next_trade_id_ |-> b.next_trade_id_]

\* getBestAsk on a map ordered the wrong way round
getBestAsk_highest(b) == Max(DOMAIN b.asks)

\* OrderBook::getBestBid / getBestAsk (the book must have that side)
getBestBid(b) == Max(DOMAIN b.bids)
getBestAsk(b) == Min(DOMAIN b.asks)

\* all orders resting on one side, as a set
RestingOn(m) == UNION {{m[p][i] : i \in 1..Len(m[p])} : p \in DOMAIN m}

\* OrderBook::getOrderCount
RECURSIVE CountLevels(_, _)
CountLevels(m, ps) ==
    IF ps = {} THEN 0
    ELSE LET p == CHOOSE x \in ps : TRUE
         IN Len(m[p]) + CountLevels(m, ps \ {p})
getOrderCount_bids(b) == CountLevels(b.bids, DOMAIN b.bids)
getOrderCount(b) == CountLevels(b.bids, DOMAIN b.bids) + CountLevels(b.asks, DOMAIN b.asks)

\* OrderBook::generateTradeId: ++next_trade_id_
generateTradeId(b) == b.next_trade_id_ + 1

\* createTrade recording the buyer's whole remainder as the quantity
createTrade_remaining(b, buy_order, sell_order, execution_price, quantity) ==
    [trade_id |-> generateTradeId(b),
     buy_order_id |-> buy_order.id, sell_order_id |-> sell_order.id,
     execution_price |-> execution_price,
     quantity |-> buy_order.remaining_quantity]

\* OrderBook::createTrade
createTrade(b, buy_order, sell_order, execution_price, quantity) ==
    [trade_id |-> generateTradeId(b),
     buy_order_id |-> buy_order.id, sell_order_id |-> sell_order.id,
     execution_price |-> execution_price, quantity |-> quantity]

\* determineExecutionPrice returning the incoming order's price
determineExecutionPrice_aggressive(aggressive_order, passive_order) ==
    aggressive_order.price

\* OrderBook::determineExecutionPrice
determineExecutionPrice(aggressive_order, passive_order) == passive_order.price

\* the side of the book an incoming order is matched against: asks_ for a
\* BUY, bids_ for a SELL
OppositeSide(b, order) == IF isBuyOrder(order) THEN b.asks ELSE b.bids

WithOppositeSide(b, order, m) ==
    IF isBuyOrder(order) THEN [b EXCEPT !.asks = m] ELSE [b EXCEPT !.bids = m]

\* asks_.begin() / bids_.begin(): the key of the best opposite level
BestOppositePrice(b, order) ==
    IF isBuyOrder(order) THEN getBestAsk(b) ELSE getBestBid(b)

\* settleHead without order_locations_.erase
settleHead_keepLoc(b, incoming, best_price, passiveAfter, trade) ==
    LET side == OppositeSide(b, incoming)
        gone == isFullyFilled(passiveAfter)
        newLevel == IF gone THEN Tail(side[best_price])
                    ELSE <<passiveAfter>> \o Tail(side[best_price])
        newSide == IF gone /\ newLevel = <<>>
                   THEN MapErase(side, best_price)
                   ELSE MapPut(side, best_price, newLevel)
        b1 == WithOppositeSide(b, incoming, newSide)
    IN  [b1 EXCEPT !.next_trade_id_ = trade.trade_id,
                   !.lifecycle =
                       IF gone /\ passiveAfter.id \in DOMAIN @
                       THEN [@ EXCEPT ![passiveAfter.id] = "filled"] ELSE @]

\* "Remove fully filled order from book": the book after the head order of
\* the best level was filled to passiveAfter and the trade id was taken.
\* order_locations_.erase(id) and pop() when it is fully filled, and the
\* level erased when that leaves it empty.
settleHead(b, incoming, best_price, passiveAfter, trade) ==
    LET side == OppositeSide(b, incoming)
        gone == isFullyFilled(passiveAfter)
        newLevel == IF gone THEN Tail(side[best_price])
                    ELSE <<passiveAfter>> \o Tail(side[best_price])
        newSide == IF gone /\ newLevel = <<>>
                   THEN MapErase(side, best_price)
                   ELSE MapPut(side, best_price, newLevel)
        b1 == WithOppositeSide(b, incoming, newSide)
    IN  [b1 EXCEPT !.next_trade_id_ = trade.trade_id,
                   !.order_locations_ =
                       IF gone THEN [i \in DOMAIN @ \ {passiveAfter.id} |-> @[i]]
                       ELSE @,
                   !.lifecycle =
                       IF gone /\ passiveAfter.id \in DOMAIN @
                       THEN [@ EXCEPT ![passiveAfter.id] = "filled"] ELSE @]

\* "Fill both orders": order.fill(trade_qty), and the trade's quantity added
\* to the history of the order
Credited(o, trade_qty, trade) ==
    [fill(o, trade_qty) EXCEPT !.filled = @ + trade.quantity]

\* the loop state after one fill.  The log entry is the history of the fill:
\* the trade, the resting order filled, the incoming order, the key and the
\* queue of the level and the keys of the resting side just before the fill.
afterFill(st, best_price, best_order, trade, trade_qty) ==
    [book |-> settleHead(st.book, st.order, best_price,
                         Credited(best_order, trade_qty, trade), trade),
     order |-> Credited(st.order, trade_qty, trade),
     trades |-> Append(st.trades, trade),
     log |-> Append(st.log,
                    [trade |-> trade, passive |-> best_order,
                     passiveAfter |-> Credited(best_order, trade_qty, trade),
                     aggressive |-> st.order,
                     level_price |-> best_price,
                     level |-> OppositeSide(st.book, st.order)[best_price],
                     side_prices |-> DOMAIN OppositeSide(st.book, st.order)]),
     done |-> FALSE]

\* a trade that names the incoming order as the buyer whatever its side
tradeOf_incomingBuys(b, order, best_order, execution_price, trade_qty) ==
    createTrade(b, order, best_order, execution_price, trade_qty)

\* the trade of one match: the incoming order is the buyer when it is a BUY,
\* else the seller
tradeOf(b, order, best_order, execution_price, trade_qty) ==
    IF isBuyOrder(order)
    THEN createTrade(b, order, best_order, execution_price, trade_qty)
    ELSE createTrade(b, best_order, order, execution_price, trade_qty)

\* the body of the loop once the head of the best level is known
matchHead(st, priceChecked, best_price, best_order, trade_qty) ==
    IF priceChecked /\ ~canMatchWith(st.order, best_order)
    THEN [st EXCEPT !.done = TRUE]
    ELSE afterFill(st, best_price, best_order,
                   tradeOf(st.book, st.order, best_order,
                           determineExecutionPrice(st.order, best_order), trade_qty),
                   trade_qty)

\* matchLevel trading one unit at a time
matchLevel_unit(st, priceChecked, best_price, best_price_level) ==
    IF best_price_level = <<>>
    THEN [st EXCEPT !.book = WithOppositeSide(st.book, st.order,
                                 MapErase(OppositeSide(st.book, st.order), best_price))]
    ELSE matchHead(st, priceChecked, best_price, Head(best_price_level), 1)

\* the body of the loop once the best level is known: an empty level is
\* erased and the loop continues
matchLevel(st, priceChecked, best_price, best_price_level) ==
    IF best_price_level = <<>>
    THEN [st EXCEPT !.book = WithOppositeSide(st.book, st.order,
                                 MapErase(OppositeSide(st.book, st.order), best_price))]
    ELSE matchHead(st, priceChecked, best_price, Head(best_price_level),
                   MinOf(st.order.remaining_quantity,
                         Head(best_price_level).remaining_quantity))

\* One iteration of the matching loop of executeMarketOrder (priceChecked =
\* FALSE) and matchLimitOrder (priceChecked = TRUE), for an incoming BUY
\* against asks_ and an incoming SELL against bids_.  st is the loop state:
\* the book, the incoming order, the trades so far and the history of the
\* fills.  The result has done = TRUE when the loop exits.
matchStep(st, priceChecked) ==
    IF ~(st.order.remaining_quantity > 0 /\ DOMAIN OppositeSide(st.book, st.order) # {})
    THEN [st EXCEPT !.done = TRUE]
    ELSE matchLevel(st, priceChecked, BestOppositePrice(st.book, st.order),
                    OppositeSide(st.book, st.order)[BestOppositePrice(st.book, st.order)])

RECURSIVE matchLoop(_, _)
matchLoop(st, priceChecked) ==
    IF st.done THEN st ELSE matchLoop(matchStep(st, priceChecked), priceChecked)

LoopStart(b, order) ==
    [book |-> b, order |-> order, trades |-> <<>>, log |-> <<>>, done |-> FALSE]

\* OrderBook::executeMarketOrder
executeMarketOrder(b, market_order) == matchLoop(LoopStart(b, market_order), FALSE)

\* OrderBook::matchLimitOrder
matchLimitOrder(b, limit_order) == matchLoop(LoopStart(b, limit_order), TRUE)

\* addToBook pushing at the front of the queue
addToBook_front(b, order) ==
    LET side == IF isBuyOrder(order) THEN b.bids ELSE b.asks
        queue == IF order.price \in DOMAIN side THEN side[order.price] ELSE <<>>
        newSide == MapPut(side, order.price, <<order>> \o queue)
    IN  [b EXCEPT !.bids = IF isBuyOrder(order) THEN newSide ELSE @,
                  !.asks = IF isBuyOrder(order) THEN @ ELSE newSide,
                  !.order_locations_ =
                       [i \in DOMAIN @ \cup {order.id} |->
                           IF i = order.id
                           THEN [price |-> order.price, side |-> order.side]
                           ELSE @[i]],
                  !.lifecycle = IF order.id \in DOMAIN @
                                THEN [@ EXCEPT ![order.id] = "rested"] ELSE @]

\* addToBook without the order_locations_ entry
addToBook_noloc(b, order) ==
    LET side == IF isBuyOrder(order) THEN b.bids ELSE b.asks
        queue == IF order.price \in DOMAIN side THEN side[order.price] ELSE <<>>
        newSide == MapPut(side, order.price, Append(queue, order))
    IN  [b EXCEPT !.bids = IF isBuyOrder(order) THEN newSide ELSE @,
                  !.asks = IF isBuyOrder(order) THEN @ ELSE newSide,
                  !.lifecycle = IF order.id \in DOMAIN @
                                THEN [@ EXCEPT ![order.id] = "rested"] ELSE @]

\* OrderBook::addToBook: push at the back of the queue at the order's price
\* on its own side (operator[] creates the level), then record the location.
addToBook(b, order) ==
    LET side == IF isBuyOrder(order) THEN b.bids ELSE b.asks
        queue == IF order.price \in DOMAIN side THEN side[order.price] ELSE <<>>
        newSide == MapPut(side, order.price, Append(queue, order))
    IN  [b EXCEPT !.bids = IF isBuyOrder(order) THEN newSide ELSE @,
                  !.asks = IF isBuyOrder(order) THEN @ ELSE newSide,
                  !.order_locations_ =
                       [i \in DOMAIN @ \cup {order.id} |->
                           IF i = order.id
                           THEN [price |-> order.price, side |-> order.side]
                           ELSE @[i]],
                  !.lifecycle = IF order.id \in DOMAIN @
                                THEN [@ EXCEPT ![order.id] = "rested"] ELSE @]

\* the largest trade id of a list of trades, or floor
RECURSIVE MaxTradeId(_, _)
MaxTradeId(trades, floor) ==
    IF trades = <<>> THEN floor
    ELSE MaxTradeId(Tail(trades),
                    IF Head(trades).trade_id > floor THEN Head(trades).trade_id ELSE floor)

\* the end of addOrder: "if (!order.isFullyFilled()) addToBook(order)" for a
\* limit order; st is the loop state the matching ended in
finishAdd(st, rests) ==
    [book |-> [(IF rests THEN addToBook(st.book, st.order) ELSE st.book)
                  EXCEPT !.maxEmitted = MaxTradeId(st.trades, @)],
     trades |-> st.trades, order |-> st.order, rested |-> rests,
     log |-> st.log]

\* addOrder resting the remainder of any order
restsAfter_any(st) == ~isFullyFilled(st.order)

\* addOrder: only a limit order that is not fully filled is rested
restsAfter(st) == isLimitOrder(st.order) /\ ~isFullyFilled(st.order)

\* history: an id whose resting order was cancelled is submitted again
Resubmitted(lifecycle, id) ==
    IF id \in DOMAIN lifecycle /\ lifecycle[id] = "cancelled"
    THEN [lifecycle EXCEPT ![id] = "resubmitted"] ELSE lifecycle

\* the dispatch of addOrder on the order type
matchIncoming(b, order) ==
    IF isMarketOrder(order) THEN executeMarketOrder(b, order)
    ELSE IF isLimitOrder(order) THEN matchLimitOrder(b, order)
    ELSE LoopStart(b, order)

finishMatched(st) == finishAdd(st, restsAfter(st))

\* OrderBook::addOrder.  The result: the book after the call, the trades
\* returned, the incoming order as addOrder's copy of it ended, whether it
\* was rested, and the history of the fills.
addOrder(b, order) ==
    finishMatched(matchIncoming([b EXCEPT !.arrivals = @ + 1,
                                          !.lifecycle = Resubmitted(@, order.id)],
                                [order EXCEPT !.seq = b.arrivals + 1]))

\* keep the orders of a queue whose id is not order_id, in order
RECURSIVE SkipId(_, _)
SkipId(queue, order_id) ==
    IF queue = <<>> THEN <<>>
    ELSE IF Head(queue).id = order_id THEN SkipId(Tail(queue), order_id)
    ELSE <<Head(queue)>> \o SkipId(Tail(queue), order_id)

\* removeFromPriceLevel without the erase of a level left empty
removeFromPriceLevel_keepLevel(b, price, side, order_id) ==
    LET m == IF side = "BUY" THEN b.bids ELSE b.asks
    IN  IF price \notin DOMAIN m THEN b
        ELSE IF side = "BUY"
        THEN [b EXCEPT !.bids = MapPut(m, price, SkipId(m[price], order_id))]
        ELSE [b EXCEPT !.asks = MapPut(m, price, SkipId(m[price], order_id))]

\* OrderBook::removeFromPriceLevel: rebuild the queue at (price, side)
\* without the orders whose id is order_id; drop the level when it empties.
\* The book is returned as it was when the level does not exist.
removeFromPriceLevel(b, price, side, order_id) ==
    LET m == IF side = "BUY" THEN b.bids ELSE b.asks
    IN  IF price \notin DOMAIN m THEN b
        ELSE LET kept == SkipId(m[price], order_id)
                 newSide == IF kept = <<>> THEN MapErase(m, price)
                            ELSE MapPut(m, price, kept)
             IN  IF side = "BUY" THEN [b EXCEPT !.bids = newSide]
                 ELSE [b EXCEPT !.asks = newSide]

\* cancelOrder without order_locations_.erase
cancelOrder_keepLoc(b, order_id) ==
    IF order_id \notin DOMAIN b.order_locations_
    THEN [book |-> b, result |-> FALSE]
    ELSE [book |-> removeFromPriceLevel(b, b.order_locations_[order_id].price,
                                        b.order_locations_[order_id].side, order_id),
          result |-> TRUE]

\* OrderBook::cancelOrder: [book, result]
cancelOrder(b, order_id) ==
    IF order_id \notin DOMAIN b.order_locations_
    THEN [book |-> b, result |-> FALSE]
    ELSE LET loc == b.order_locations_[order_id]
             b1 == removeFromPriceLevel(b, loc.price, loc.side, order_id)
         IN  [book |-> [b1 EXCEPT !.order_locations_ =
                                      [i \in DOMAIN b.order_locations_ \ {order_id}
                                          |-> b.order_locations_[i]],
                                  !.lifecycle = IF order_id \in DOMAIN @
                                                THEN [@ EXCEPT ![order_id] = "cancelled"]
                                                ELSE @],
              result |-> TRUE]

\* OrderBook::clear: both maps and the locations emptied, next_trade_id_ = 0
clear(b) ==
    [b EXCEPT !.bids = EmptyMap, !.asks = EmptyMap,
              !.order_locations_ = [i \in {} |-> <<>>],
              !.next_trade_id_ = 0,
              !.arrivals = 0,
              !.lifecycle = [i \in DOMAIN @ |-> "none"]]

\* the loop of getBidLevels / getAskLevels over the levels todo of the map
\* m, best price first: push {price, total_qty}, then break when
\* levels.size() >= max_levels
RECURSIVE collectLevels(_, _, _, _, _)
collectLevels(m, todo, side, levels, max_levels) ==
    IF todo = {} THEN levels
    ELSE LET price == IF side = "BUY" THEN Max(todo) ELSE Min(todo)
             total_qty == SumSeq([i \in DOMAIN m[price] |->
                                     m[price][i].remaining_quantity])
             pushed == Append(levels, [price |-> price, quantity |-> total_qty])
         IN  IF Len(pushed) >= max_levels THEN pushed
             ELSE collectLevels(m, todo \ {price}, side, pushed, max_levels)

\* OrderBook::getBidLevels, OrderBook::getAskLevels
getBidLevels(b, max_levels) ==
    collectLevels(b.bids, DOMAIN b.bids, "BUY", <<>>, max_levels)
getAskLevels(b, max_levels) ==
    collectLevels(b.asks, DOMAIN b.asks, "SELL", <<>>, max_levels)

\* ------------------------------------------------------------------------
\* MatchingEngine (matching_engine.hpp / matching_engine.cpp): helpers
\* ------------------------------------------------------------------------

\* std::isalnum in the "C" locale; a symbol is a sequence of characters
Alnum ==
    {"A", "B", "C", "D", "E", "F", "G", "H", "I", "J", "K", "L", "M", "N", "O",
     "P", "Q", "R", "S", "T", "U", "V", "W", "X", "Y", "Z",
     "a", "b", "c", "d", "e", "f", "g", "h", "i", "j", "k", "l", "m", "n", "o",
     "p", "q", "r", "s", "t", "u", "v", "w", "x", "y", "z",
     "0", "1", "2", "3", "4", "5", "6", "7", "8", "9"}

\* EngineConfig with its default member initialisers
DefaultConfig ==
    [max_order_price |-> DEFAULT_MAX_ORDER_PRICE,
     max_order_quantity |-> DEFAULT_MAX_ORDER_QUANTITY,
     max_orders_per_symbol |-> DEFAULT_MAX_ORDERS_PER_SYMBOL,
     max_symbols |-> DEFAULT_MAX_SYMBOLS]

\* MatchingEngine::validateSymbol
validateSymbol(symbol) ==
    IF symbol = <<>> \/ Len(symbol) > MAX_SYMBOL_SIZE THEN FALSE
    ELSE \A i \in 1..Len(symbol) : symbol[i] \in Alnum

\* validateOrder without the quantity limit
validateOrder_noQuantity(cfg, order) ==
    IF ~validateSymbol(order.symbol) THEN FALSE
    ELSE IF order.price > cfg.max_order_price THEN FALSE
    ELSE TRUE

\* MatchingEngine::validateOrder
validateOrder(cfg, order) ==
    IF ~validateSymbol(order.symbol) THEN FALSE
    ELSE IF order.price > cfg.max_order_price THEN FALSE
    ELSE IF order.quantity > cfg.max_order_quantity THEN FALSE
    ELSE TRUE

\* callbacks that throw when invoked
ThrowingCallbacks == {"bad"}

\* a broadcast that walks the callbacks from the last registered to the first
broadcast_reversed(callbacks, kind, arg) ==
    [calls |-> [i \in 1..Len(callbacks) |->
                   [kind |-> kind, cb |-> callbacks[Len(callbacks) + 1 - i],
                    arg |-> arg]],
     threw |-> \E i \in 1..Len(callbacks) : callbacks[i] \in ThrowingCallbacks]

\* MatchingEngine::broadcastTrade / broadcastOrderUpdate: the callbacks are
\* invoked in registration order; a callback that throws ends the loop and
\* the exception leaves the function.  [calls, threw]
RECURSIVE broadcast(_, _, _)
broadcast(callbacks, kind, arg) ==
    IF callbacks = <<>> THEN [calls |-> <<>>, threw |-> FALSE]
    ELSE LET call == [kind |-> kind, cb |-> Head(callbacks), arg |-> arg]
         IN  IF Head(callbacks) \in ThrowingCallbacks
             THEN [calls |-> <<call>>, threw |-> TRUE]
             ELSE LET rest == broadcast(Tail(callbacks), kind, arg)
                  IN  [calls |-> <<call>> \o rest.calls, threw |-> rest.threw]

\* the loop of submitOrder / modifyOrder over the trades: broadcastTrade for
\* each trade in order, until one throws
RECURSIVE broadcastTrades(_, _)
broadcastTrades(callbacks, trades) ==
    IF trades = <<>> THEN [calls |-> <<>>, threw |-> FALSE]
    ELSE LET first == broadcast(callbacks, "trade", Head(trades))
         IN  IF first.threw THEN first
             ELSE LET rest == broadcastTrades(callbacks, Tail(trades))
                  IN  [calls |-> first.calls \o rest.calls, threw |-> rest.threw]

\* ------------------------------------------------------------------------
\* State
\* ------------------------------------------------------------------------

VARIABLES
    book,       \* one OrderBook driven directly through its public methods
    order_books_,            \* MatchingEngine: symbol -> OrderBook
    trade_callbacks_,        \* MatchingEngine: registered trade callbacks
    order_callbacks_,        \* MatchingEngine: registered order callbacks
    total_orders_processed_, \* MatchingEngine counter
    total_trades_executed_,  \* MatchingEngine counter
    config_,                 \* MatchingEngine: EngineConfig
    is_running_,             \* MatchingEngine running flag
    engine_mutex_,           \* MatchingEngine: the std::shared_mutex
    threads,    \* the call each thread is in, where it is, and its locals
    lastOp,     \* the last call made and what it returned
    lastLog     \* history of the fills of the last call

engineVars == <<order_books_, trade_callbacks_, order_callbacks_,
                total_orders_processed_, total_trades_executed_, config_,
                is_running_, engine_mutex_, threads>>
vars == <<book, engineVars, lastOp, lastLog>>

NoOp == [op |-> "none"]

\* the threads that write to the engine and the threads that read from it
Writers == {"w1", "w2"}
Readers == {"r1", "r2"}

\* a std::shared_mutex nobody holds: no exclusive owner, no shared owners
FreeMutex == [writer |-> "none", readers |-> {}]

\* a thread that is in no call of the engine
Idle == [pc |-> "idle"]

\* every order the Order constructor accepts, over the model's inputs
ValidOrders(symbols) ==
    {NewOrder(id, s, sd, "LIMIT", p, q) :
        id \in Ids, s \in symbols, sd \in Sides, p \in Prices, q \in Quantities}
    \cup
    {NewOrder(id, s, sd, "MARKET", MARKET_PRICE, q) :
        id \in Ids, s \in symbols, sd \in Sides, q \in Quantities}

\* OrderBook::OrderBook and MatchingEngine::MatchingEngine
Init ==
    /\ book = NewOrderBook
    /\ order_books_ = [s \in {} |-> NewOrderBook]
    /\ trade_callbacks_ = <<>>
    /\ order_callbacks_ = <<>>
    /\ total_orders_processed_ = 0
    /\ total_trades_executed_ = 0
    /\ config_ = DefaultConfig
    /\ is_running_ = FALSE
    /\ engine_mutex_ = FreeMutex
    /\ threads = [t \in Writers \cup Readers |-> Idle]
    /\ lastOp = NoOp
    /\ lastLog = <<>>

\* a caller hands an order to OrderBook::addOrder
AddOrderUpTo(o, bound) ==
    /\ book.arrivals < bound
    /\ LET r == addOrder(book, o)
       IN  /\ book' = r.book
           /\ lastOp' = [op |-> "addOrder", order |-> o, after |-> r.order,
                         rested |-> r.rested, trades |-> r.trades,
                         maxBefore |-> book.maxEmitted]
           /\ lastLog' = r.log
           /\ UNCHANGED engineVars

AddOrder == \E o \in ValidOrders({SymA}) : AddOrderUpTo(o, MaxOrders)

\* a caller calls OrderBook::cancelOrder
CancelOrder ==
    \E id \in Ids :
        LET r == cancelOrder(book, id)
        IN  /\ book' = r.book
            /\ lastOp' = IF r.result
                         THEN [op |-> "cancelOrder", result |-> TRUE, id |-> id,
                               before |-> book.lifecycle[id]]
                         ELSE [op |-> "cancelOrder", result |-> FALSE,
                               before |-> book.lifecycle[id]]
            /\ lastLog' = <<>>
            /\ UNCHANGED engineVars

\* a caller calls OrderBook::clear
Clear ==
    /\ book' = clear(book)
    /\ lastOp' = [op |-> "clear"]
    /\ lastLog' = <<>>
    /\ UNCHANGED engineVars

Next == AddOrder \/ CancelOrder \/ Clear

\* one OrderBook used through addOrder, cancelOrder and clear
Spec == Init /\ [][Next]_vars

\* ------------------------------------------------------------------------
\* MatchingEngine: operations
\* ------------------------------------------------------------------------

\* a failing call that was counted as an order processed
EngineUntouched_counted ==
    /\ total_orders_processed_' = total_orders_processed_ + 1
    /\ UNCHANGED <<book, engine_mutex_, threads, order_books_, trade_callbacks_, order_callbacks_,
                   total_trades_executed_, config_, is_running_>>

\* a failing call that left a book under the second symbol
EngineUntouched_created ==
    /\ order_books_' = MapPut(order_books_, SymB, NewOrderBook)
    /\ UNCHANGED <<book, engine_mutex_, threads, trade_callbacks_, order_callbacks_,
                   total_orders_processed_, total_trades_executed_, config_,
                   is_running_>>

\* a failing call that emptied the table of books
EngineUntouched_cleared ==
    /\ order_books_' = [s \in {} |-> NewOrderBook]
    /\ UNCHANGED <<book, engine_mutex_, threads, trade_callbacks_, order_callbacks_,
                   total_orders_processed_, total_trades_executed_, config_,
                   is_running_>>

\* an engine call that ends without touching the engine
EngineUntouched ==
    UNCHANGED <<book, engine_mutex_, threads, order_books_, trade_callbacks_, order_callbacks_,
                total_orders_processed_, total_trades_executed_, config_,
                is_running_>>

\* MatchingEngine::start
Start ==
    /\ is_running_' = TRUE
    /\ lastOp' = [op |-> "start"]
    /\ lastLog' = <<>>
    /\ UNCHANGED <<book, engine_mutex_, threads, order_books_, trade_callbacks_, order_callbacks_,
                   total_orders_processed_, total_trades_executed_, config_>>

\* a stop that also empties every book
Stop_clearing ==
    /\ is_running_' = FALSE
    /\ order_books_' = [s \in DOMAIN order_books_ |-> clear(order_books_[s])]
    /\ lastOp' = [op |-> "stop"]
    /\ lastLog' = <<>>
    /\ UNCHANGED <<book, engine_mutex_, threads, trade_callbacks_, order_callbacks_,
                   total_orders_processed_, total_trades_executed_, config_>>

\* MatchingEngine::stop
Stop ==
    /\ is_running_' = FALSE
    /\ lastOp' = [op |-> "stop"]
    /\ lastLog' = <<>>
    /\ UNCHANGED <<book, engine_mutex_, threads, order_books_, trade_callbacks_, order_callbacks_,
                   total_orders_processed_, total_trades_executed_, config_>>

\* MatchingEngine::addSymbol
AddSymbol(symbol) ==
    /\ order_books_' = IF symbol \notin DOMAIN order_books_
                       THEN MapPut(order_books_, symbol, NewOrderBook)
                       ELSE order_books_
    /\ lastOp' = [op |-> "addSymbol", symbol |-> symbol]
    /\ lastLog' = <<>>
    /\ UNCHANGED <<book, engine_mutex_, threads, trade_callbacks_, order_callbacks_,
                   total_orders_processed_, total_trades_executed_, config_,
                   is_running_>>

\* MatchingEngine::removeSymbol
RemoveSymbol(symbol) ==
    LET call == [op |-> "removeSymbol", symbol |-> symbol]
    IN
    IF symbol \notin DOMAIN order_books_
    THEN /\ lastOp' = call @@ [result |-> FALSE]
         /\ lastLog' = <<>>
         /\ EngineUntouched
    ELSE IF getOrderCount(order_books_[symbol]) > 0
    THEN /\ lastOp' = call @@ [result |-> FALSE]
         /\ lastLog' = <<>>
         /\ EngineUntouched
    ELSE /\ order_books_' = MapErase(order_books_, symbol)
         /\ lastOp' = call @@ [result |-> TRUE]
         /\ lastLog' = <<>>
         /\ UNCHANGED <<book, engine_mutex_, threads, trade_callbacks_, order_callbacks_,
                        total_orders_processed_, total_trades_executed_,
                        config_, is_running_>>

\* MatchingEngine::registerOrderCallback, with at most bound callbacks
RegisterOrderCallbackUpTo(cb, bound) ==
    /\ Len(order_callbacks_) < bound
    /\ order_callbacks_' = Append(order_callbacks_, cb)
    /\ lastOp' = [op |-> "registerOrderCallback"]
    /\ lastLog' = <<>>
    /\ UNCHANGED <<book, engine_mutex_, threads, order_books_, trade_callbacks_,
                   total_orders_processed_, total_trades_executed_, config_,
                   is_running_>>

RegisterOrderCallback(cb) == RegisterOrderCallbackUpTo(cb, MaxCallbacks)

\* MatchingEngine::registerTradeCallback, with at most bound callbacks
RegisterTradeCallbackUpTo(cb, bound) ==
    /\ Len(trade_callbacks_) < bound
    /\ trade_callbacks_' = Append(trade_callbacks_, cb)
    /\ lastOp' = [op |-> "registerTradeCallback"]
    /\ lastLog' = <<>>
    /\ UNCHANGED <<book, engine_mutex_, threads, order_books_, order_callbacks_,
                   total_orders_processed_, total_trades_executed_, config_,
                   is_running_>>

RegisterTradeCallback(cb) == RegisterTradeCallbackUpTo(cb, MaxCallbacks)

\* MatchingEngine::submitOrder.  outcome is "returned" or the exception that
\* left the call; calls are the callback invocations made, in order.  At
\* most bound orders are handed to one book.
SubmitOrderUpTo(order, bound) ==
    LET call == [op |-> "submitOrder", trades |-> <<>>, calls |-> <<>>]
    IN
    IF ~is_running_
    THEN /\ lastOp' = call @@ [outcome |-> "runtime_error: not running"]
         /\ lastLog' = <<>>
         /\ EngineUntouched
    ELSE IF ~validateOrder(config_, order)
    THEN /\ lastOp' = call @@ [outcome |-> "invalid_argument: validation failed",
                               order |-> order]
         /\ lastLog' = <<>>
         /\ EngineUntouched
    ELSE IF order.symbol \notin DOMAIN order_books_
    THEN /\ lastOp' = call @@ [outcome |-> "runtime_error: symbol not found",
                               order |-> order]
         /\ lastLog' = <<>>
         /\ EngineUntouched
    ELSE /\ order_books_[order.symbol].arrivals < bound
         /\ LET r == addOrder(order_books_[order.symbol], order)
                t == broadcastTrades(trade_callbacks_, r.trades)
                o == IF t.threw THEN [calls |-> <<>>, threw |-> TRUE]
                     ELSE broadcast(order_callbacks_, "order", order)
            IN  /\ order_books_' = [order_books_ EXCEPT ![order.symbol] = r.book]
                /\ total_orders_processed_' = total_orders_processed_ + 1
                /\ total_trades_executed_' = total_trades_executed_ + Len(r.trades)
                /\ lastOp' = [call EXCEPT !.trades = r.trades,
                                          !.calls = t.calls \o o.calls]
                             @@ [outcome |-> IF o.threw THEN "callback exception"
                                             ELSE "returned",
                                 order |-> order, after |-> r.order,
                                 rested |-> r.rested]
                /\ lastLog' = r.log
                /\ UNCHANGED <<book, engine_mutex_, threads, trade_callbacks_, order_callbacks_, config_,
                               is_running_>>

SubmitOrder(order) == SubmitOrderUpTo(order, MaxEngineOrders)

\* MatchingEngine::cancelOrder.  After a successful cancel the function
\* constructs Order(order_id, symbol, BUY, LIMIT, 0, 0) for the callbacks;
\* when the Order constructor rejects those arguments its exception leaves
\* cancelOrder, after the book was changed.
EngineCancelOrder(order_id, symbol) ==
    LET call == [op |-> "engine.cancelOrder", calls |-> <<>>,
                 known |-> symbol \in DOMAIN order_books_]
    IN
    IF symbol \notin DOMAIN order_books_
    THEN /\ lastOp' = call @@ [outcome |-> "returned", result |-> FALSE,
                               before |-> "none"]
         /\ lastLog' = <<>>
         /\ EngineUntouched
    ELSE LET r == cancelOrder(order_books_[symbol], order_id)
             dummyOk == OrderCtorOk(order_id, symbol, "LIMIT", 0, 0)
             o == IF r.result /\ dummyOk
                  THEN broadcast(order_callbacks_, "order",
                                 NewOrder(order_id, symbol, "BUY", "LIMIT", 0, 0))
                  ELSE [calls |-> <<>>, threw |-> FALSE]
         IN  /\ order_books_' = [order_books_ EXCEPT ![symbol] = r.book]
             /\ lastOp' = [call EXCEPT !.calls = o.calls]
                          @@ [outcome |-> IF r.result /\ ~dummyOk
                                          THEN "invalid_argument: Order constructor"
                                          ELSE IF o.threw THEN "callback exception"
                                          ELSE "returned",
                              result |-> r.result,
                              before |-> IF order_id \in Ids
                                         THEN order_books_[symbol].lifecycle[order_id]
                                         ELSE "none"]
                          @@ (IF r.result THEN [id |-> order_id, symbol |-> symbol]
                              ELSE [known |-> TRUE])
             /\ lastLog' = <<>>
             /\ UNCHANGED <<book, engine_mutex_, threads, trade_callbacks_, order_callbacks_,
                            total_orders_processed_, total_trades_executed_,
                            config_, is_running_>>

\* MatchingEngine::modifyOrder: cancel, then construct
\* Order(order_id, symbol, BUY, LIMIT, new_price, new_quantity) and add it.
ModifyOrderUpTo(order_id, symbol, new_price, new_quantity, bound) ==
    LET call == [op |-> "modifyOrder", trades |-> <<>>, calls |-> <<>>,
                 known |-> symbol \in DOMAIN order_books_]
        args == [id |-> order_id, symbol |-> symbol,
                 price |-> new_price, quantity |-> new_quantity]
    IN
    IF symbol \notin DOMAIN order_books_
    THEN /\ lastOp' = call @@ [outcome |-> "returned", result |-> FALSE]
         /\ lastLog' = <<>>
         /\ EngineUntouched
    ELSE LET c == cancelOrder(order_books_[symbol], order_id)
         IN
         IF ~c.result
         THEN /\ lastOp' = call @@ [outcome |-> "returned", result |-> FALSE]
              /\ lastLog' = <<>>
              /\ EngineUntouched
         ELSE IF ~OrderCtorOk(order_id, symbol, "LIMIT", new_price, new_quantity)
         THEN /\ order_books_' = [order_books_ EXCEPT ![symbol] = c.book]
              /\ lastOp' = call @@ args
                             @@ [outcome |-> "invalid_argument: Order constructor",
                                 result |-> FALSE]
              /\ lastLog' = <<>>
              /\ UNCHANGED <<book, engine_mutex_, threads, trade_callbacks_, order_callbacks_,
                             total_orders_processed_, total_trades_executed_,
                             config_, is_running_>>
         ELSE /\ c.book.arrivals < bound
              /\ LET new_order == NewOrder(order_id, symbol, "BUY", "LIMIT",
                                           new_price, new_quantity)
                     r == addOrder(c.book, new_order)
                     t == broadcastTrades(trade_callbacks_, r.trades)
                     o == IF t.threw THEN [calls |-> <<>>, threw |-> TRUE]
                          ELSE broadcast(order_callbacks_, "order", new_order)
                 IN  /\ order_books_' = [order_books_ EXCEPT ![symbol] = r.book]
                     /\ lastOp' = [call EXCEPT !.trades = r.trades,
                                               !.calls = t.calls \o o.calls]
                                  @@ args
                                  @@ [outcome |-> IF o.threw THEN "callback exception"
                                                  ELSE "returned",
                                      result |-> ~o.threw,
                                      order |-> new_order, after |-> r.order,
                                      rested |-> r.rested]
                     /\ lastLog' = r.log
                     /\ UNCHANGED <<book, engine_mutex_, threads, trade_callbacks_, order_callbacks_,
                                    total_orders_processed_, total_trades_executed_,
                                    config_, is_running_>>

ModifyOrder(order_id, symbol, new_price, new_quantity) ==
    ModifyOrderUpTo(order_id, symbol, new_price, new_quantity, MaxEngineOrders)

\* the engine with one symbol added, a second symbol that never gets a
\* book, and one order callback
NextEngine ==
    \/ Start
    \/ Stop
    \/ AddSymbol(SymA)
    \/ \E cb \in {"cb1"} : RegisterOrderCallback(cb)
    \/ \E o \in ValidOrders({SymA}) \cup {NewOrder(1, SymB, "BUY", "LIMIT", 1, 1)} :
          SubmitOrder(o)
    \/ \E id \in Ids, s \in {SymA, SymB} : EngineCancelOrder(id, s)
    \/ \E id \in Ids, p \in Prices \cup {0}, q \in Quantities :
          ModifyOrder(id, SymA, p, q)
    \/ ModifyOrder(1, SymB, 1, 1)

SpecEngine == Init /\ [][NextEngine]_vars

\* an EngineConfig whose limits are the smallest price, the smallest
\* quantity and a single order per symbol
TightConfig ==
    [DefaultConfig EXCEPT !.max_order_price = Min(Prices),
                          !.max_order_quantity = Min(Quantities),
                          !.max_orders_per_symbol = 1]

\* the configurations an engine is constructed with
Configs == {DefaultConfig, TightConfig}

\* MatchingEngine::MatchingEngine(config)
InitRisk ==
    /\ book = NewOrderBook
    /\ order_books_ = [s \in {} |-> NewOrderBook]
    /\ trade_callbacks_ = <<>>
    /\ order_callbacks_ = <<>>
    /\ total_orders_processed_ = 0
    /\ total_trades_executed_ = 0
    /\ config_ \in Configs
    /\ is_running_ = FALSE
    /\ engine_mutex_ = FreeMutex
    /\ threads = [t \in Writers \cup Readers |-> Idle]
    /\ lastOp = NoOp
    /\ lastLog = <<>>

\* orders submitted to an engine constructed with either configuration
NextRisk ==
    \/ Start
    \/ AddSymbol(SymA)
    \/ \E cb \in {"cb1"} : RegisterOrderCallback(cb)
    \/ \E o \in ValidOrders({SymA}) : SubmitOrder(o)

SpecRisk == InitRisk /\ [][NextRisk]_vars

\* the well-behaved callback registered at each position of a callback list
CallbackNames == <<"cb1", "cb2", "cb3", "cb4">>

\* the callbacks a caller registers: a well-behaved one or one that throws
NewCallbacks(callbacks) == {CallbackNames[Len(callbacks) + 1], "bad"}

\* two sell orders at different prices and two buy orders that cross them
ObservedOrders ==
    {NewOrder(1, SymA, "SELL", "LIMIT", 1, 1),
     NewOrder(2, SymA, "SELL", "LIMIT", 2, 1),
     NewOrder(1, SymA, "BUY", "LIMIT", 2, 2),
     NewOrder(2, SymA, "BUY", "MARKET", MARKET_PRICE, 2)}

\* orders submitted to an engine with trade and order callbacks, some of
\* which throw
NextObservers ==
    \/ Start
    \/ AddSymbol(SymA)
    \/ \E cb \in NewCallbacks(trade_callbacks_) :
          RegisterTradeCallbackUpTo(cb, MaxObservers)
    \/ \E cb \in NewCallbacks(order_callbacks_) :
          RegisterOrderCallbackUpTo(cb, MaxObservers)
    \/ \E o \in ObservedOrders : SubmitOrderUpTo(o, MaxObservedOrders)

SpecObservers == Init /\ [][NextObservers]_vars

\* orders submitted to an engine that is started and stopped, for a symbol
\* with a book and for one without
NextSubmit ==
    \/ Start
    \/ Stop
    \/ AddSymbol(SymA)
    \/ \E cb \in {"cb1"} : RegisterOrderCallback(cb)
    \/ \E o \in ValidOrders({SymA}) \cup {NewOrder(1, SymB, "BUY", "LIMIT", 1, 1)} :
          SubmitOrder(o)

SpecSubmit == Init /\ [][NextSubmit]_vars

\* a symbol with a character that is not alphanumeric
SymBad == <<"!">>

\* symbols added and removed around the orders of one symbol
NextSymbols ==
    \/ Start
    \/ \E s \in {SymA, SymBad} : AddSymbol(s)
    \/ \E s \in {SymA, SymB, SymBad} : RemoveSymbol(s)
    \/ \E o \in ObservedOrders :
          total_orders_processed_ < MaxProcessed /\ SubmitOrder(o)
    \/ \E id \in Ids : EngineCancelOrder(id, SymA)

SpecSymbols == Init /\ [][NextSymbols]_vars

\* a caller lists the best max_levels levels of one side of the book
GetBidLevels(max_levels) ==
    /\ lastOp' = [op |-> "getBidLevels", max_levels |-> max_levels,
                  levels |-> getBidLevels(book, max_levels)]
    /\ lastLog' = <<>>
    /\ UNCHANGED <<book, engineVars>>

GetAskLevels(max_levels) ==
    /\ lastOp' = [op |-> "getAskLevels", max_levels |-> max_levels,
                  levels |-> getAskLevels(book, max_levels)]
    /\ lastLog' = <<>>
    /\ UNCHANGED <<book, engineVars>>

NextLevels ==
    \/ \E o \in ValidOrders({SymA}) : AddOrderUpTo(o, MaxLevelOrders)
    \/ CancelOrder
    \/ \E n \in 0..MaxLevels : GetBidLevels(n)
    \/ \E n \in 0..MaxLevels : GetAskLevels(n)

\* one OrderBook whose levels are listed between addOrder and cancelOrder
\* calls
SpecLevels == Init /\ [][NextLevels]_vars

\* orders for a symbol validateSymbol rejects and for a symbol without a
\* book, besides the orders of SymA
CheckedOrders ==
    ValidOrders({SymA})
    \cup {NewOrder(1, SymBad, "BUY", "LIMIT", 1, 1),
          NewOrder(1, SymBad, "BUY", "LIMIT", 2, 2),
          NewOrder(1, SymB, "BUY", "LIMIT", 1, 1),
          NewOrder(1, SymB, "BUY", "LIMIT", 2, 2)}

NextChecks ==
    \/ Start
    \/ Stop
    \/ AddSymbol(SymA)
    \/ \E o \in CheckedOrders : SubmitOrder(o)

\* orders that fail one or several checks of submitOrder, on an engine
\* constructed with either configuration
SpecChecks == InitRisk /\ [][NextChecks]_vars

\* a resting sell order and a buy order that crosses it, for each of two
\* symbols
PairedOrders ==
    {NewOrder(1, SymA, "SELL", "LIMIT", 1, 1),
     NewOrder(2, SymA, "BUY", "LIMIT", 1, 2),
     NewOrder(1, SymB, "SELL", "LIMIT", 2, 2),
     NewOrder(2, SymB, "BUY", "MARKET", MARKET_PRICE, 1)}

NextTwoSymbols ==
    \/ Start
    \/ \E s \in {SymA, SymB} : AddSymbol(s)
    \/ \E o \in PairedOrders : SubmitOrder(o)
    \/ \E id \in Ids, s \in {SymA, SymB} : EngineCancelOrder(id, s)
    \/ \E s \in {SymA, SymB}, p \in Prices : ModifyOrder(1, s, p, 1)

\* orders submitted, cancelled and modified under two symbols
SpecTwoSymbols == Init /\ [][NextTwoSymbols]_vars

\* a trade callback registered before the first symbol, then orders
\* submitted, cancelled and modified
NextCounted ==
    \/ Start
    \/ AddSymbol(SymA)
    \/ DOMAIN order_books_ = {} /\ RegisterTradeCallback("cb1")
    \/ \E o \in ObservedOrders : SubmitOrderUpTo(o, MaxObservedOrders)
    \/ \E id \in Ids : EngineCancelOrder(id, SymA)
    \/ \E p \in Prices : ModifyOrderUpTo(1, SymA, p, 1, MaxObservedOrders)

SpecCounted == Init /\ [][NextCounted]_vars

\* EngineConfig with room for one symbol
OneSymbolConfig == [DefaultConfig EXCEPT !.max_symbols = 1]

\* MatchingEngine::MatchingEngine(config) with max_symbols = 1
InitOneSymbol ==
    /\ book = NewOrderBook
    /\ order_books_ = [s \in {} |-> NewOrderBook]
    /\ trade_callbacks_ = <<>>
    /\ order_callbacks_ = <<>>
    /\ total_orders_processed_ = 0
    /\ total_trades_executed_ = 0
    /\ config_ = OneSymbolConfig
    /\ is_running_ = FALSE
    /\ engine_mutex_ = FreeMutex
    /\ threads = [t \in Writers \cup Readers |-> Idle]
    /\ lastOp = NoOp
    /\ lastLog = <<>>

NextOneSymbol ==
    \/ Start
    \/ \E s \in {SymA, SymB} : AddSymbol(s)
    \/ \E s \in {SymA, SymB} : RemoveSymbol(s)
    \/ \E o \in PairedOrders :
          total_orders_processed_ < MaxProcessed /\ SubmitOrder(o)

\* symbols added to and removed from an engine configured for one symbol
SpecOneSymbol == InitOneSymbol /\ [][NextOneSymbol]_vars

\* MatchingEngine::unregisterAllCallbacks
UnregisterAllCallbacks ==
    /\ trade_callbacks_' = <<>>
    /\ order_callbacks_' = <<>>
    /\ lastOp' = [op |-> "unregisterAllCallbacks"]
    /\ lastLog' = <<>>
    /\ UNCHANGED <<book, engine_mutex_, threads, order_books_,
                   total_orders_processed_, total_trades_executed_, config_,
                   is_running_>>

\* MatchingEngine::resetStatistics (start_time_ is a clock reading and is
\* left out)
ResetStatistics ==
    /\ total_orders_processed_' = 0
    /\ total_trades_executed_' = 0
    /\ lastOp' = [op |-> "resetStatistics"]
    /\ lastLog' = <<>>
    /\ UNCHANGED <<book, engine_mutex_, threads, order_books_, trade_callbacks_,
                   order_callbacks_, config_, is_running_>>

\* MatchingEngine::updateConfig
UpdateConfig(config) ==
    /\ config_' = config
    /\ lastOp' = [op |-> "updateConfig"]
    /\ lastLog' = <<>>
    /\ UNCHANGED <<book, engine_mutex_, threads, order_books_, trade_callbacks_,
                   order_callbacks_, total_orders_processed_,
                   total_trades_executed_, is_running_>>

\* the engine started, stopped and reconfigured around the orders of one
\* symbol
NextAdmin ==
    \/ Start
    \/ Stop
    \/ AddSymbol(SymA)
    \/ RegisterTradeCallback("cb1")
    \/ RegisterOrderCallback("cb1")
    \/ UnregisterAllCallbacks
    \/ ResetStatistics
    \/ \E config \in Configs : UpdateConfig(config)
    \/ \E o \in ObservedOrders : SubmitOrder(o)

SpecAdmin == Init /\ [][NextAdmin]_vars

\* ------------------------------------------------------------------------
\* MatchingEngine called from several threads
\* ------------------------------------------------------------------------

\* std::unique_lock lock(engine_mutex_) returns when nobody holds the mutex
canLock_overWriter(mx) == mx.readers = {}
canLock_overReaders(mx) == mx.writer = "none"
canLock(mx) == mx.writer = "none" /\ mx.readers = {}

\* std::shared_lock lock(engine_mutex_) returns when no thread holds the
\* mutex exclusively
canLockShared_always(mx) == TRUE
canLockShared(mx) == mx.writer = "none"

\* a division by zero in getStatistics ended the process
ProcessAlive == \A t \in DOMAIN threads : threads[t].pc # "SIGFPE"

\* what no step of a call in a thread changes
callFrame == <<book, trade_callbacks_, order_callbacks_, config_, lastOp, lastLog>>

\* the data of the engine the calls read and write
engineData == <<order_books_, total_orders_processed_, total_trades_executed_,
                is_running_>>

\* the values of engineData, kept by a writer from the moment it has the lock
Snapshot ==
    [order_books_ |-> order_books_, orders |-> total_orders_processed_,
     trades |-> total_trades_executed_, is_running_ |-> is_running_]

\* thread t is in the call c at the place pc
At(t, op, pc) == threads[t].pc = pc /\ threads[t].op = op

\* thread t goes on to the place pc with the locals in l set
Goto(t, pc, l) == threads' = [threads EXCEPT ![t] = l @@ [@ EXCEPT !.pc = pc]]

\* the return (or the exception) of a call that holds the mutex exclusively
ReturnUnique(t) ==
    /\ threads' = [threads EXCEPT ![t] = Idle]
    /\ engine_mutex_' = [engine_mutex_ EXCEPT !.writer = "none"]

\* the return of a call that holds the mutex shared
ReturnShared(t) ==
    /\ threads' = [threads EXCEPT ![t] = Idle]
    /\ engine_mutex_' = [engine_mutex_ EXCEPT !.readers = @ \ {t}]

\* the calls of the writers, with their arguments
StartCall == [op |-> "start"]
AddSymbolCall(symbol) == [op |-> "addSymbol", symbol |-> symbol]
RemoveSymbolCall(symbol) == [op |-> "removeSymbol", symbol |-> symbol]
SubmitCall(order) == [op |-> "submitOrder", order |-> order]
CancelCall(order_id, symbol) ==
    [op |-> "cancelOrder", order_id |-> order_id, symbol |-> symbol]
ModifyCall(order_id, symbol, new_price, new_quantity) ==
    [op |-> "modifyOrder", order_id |-> order_id, symbol |-> symbol,
     new_price |-> new_price, new_quantity |-> new_quantity]

\* std::nullopt and a std::optional holding v
nullopt == <<>>
Some(v) == <<v>>

\* MarketDepth and EngineStatistics as default-constructed (the clock
\* readings timestamp, start_time and average_latency_microseconds are left
\* out)
NewMarketDepth(symbol) ==
    [symbol |-> symbol, bids |-> <<>>, asks |-> <<>>, best_bid |-> nullopt,
     best_ask |-> nullopt, spread |-> nullopt, total_orders |-> 0]
NewEngineStatistics ==
    [total_orders_processed |-> 0, total_trades_executed |-> 0,
     total_symbols_active |-> 0, uptime |-> 0, orders_per_second |-> 0,
     trades_per_second |-> 0]

\* the calls of the readers, with their arguments and locals
BestBidCall(symbol) == [op |-> "getBestBid", symbol |-> symbol]
BestAskCall(symbol) == [op |-> "getBestAsk", symbol |-> symbol]
SpreadCall(symbol) == [op |-> "getSpread", symbol |-> symbol]
MarketDepthCall(symbol, levels) ==
    [op |-> "getMarketDepth", symbol |-> symbol, levels |-> levels,
     depth |-> NewMarketDepth(symbol)]
StatisticsCall == [op |-> "getStatistics", stats |-> NewEngineStatistics]

WriterOps == {"start", "addSymbol", "removeSymbol", "submitOrder",
              "cancelOrder", "modifyOrder"}
ReaderOps == {"getBestBid", "getBestAsk", "getSpread", "getMarketDepth",
              "getStatistics"}

\* the calls under way that may hand an order to a book
PendingAdds ==
    Cardinality({t \in Writers :
        threads[t].pc # "idle" /\ threads[t].op \in {"submitOrder", "modifyOrder"}})

\* the orders the book of the symbol of call c has been handed
Arrivals(c) ==
    LET symbol == IF c.op = "submitOrder" THEN c.order.symbol ELSE c.symbol
    IN  IF symbol \in DOMAIN order_books_ THEN order_books_[symbol].arrivals
        ELSE 0

\* thread t calls a function of the engine; at most bound orders go to one
\* book and at most bound submissions are counted
CallUpTo(t, c, bound) ==
    /\ ProcessAlive
    /\ threads[t] = Idle
    /\ c.op \in {"submitOrder", "modifyOrder"} =>
          /\ Arrivals(c) + PendingAdds < bound
          /\ total_orders_processed_ + PendingAdds < bound
    /\ threads' = [threads EXCEPT ![t] = c @@ [pc |-> "lock"]]
    /\ UNCHANGED <<callFrame, engineData, engine_mutex_>>

Call(t, c) == CallUpTo(t, c, MaxThreadOrders)

\* std::unique_lock lock(engine_mutex_) of start, addSymbol, removeSymbol,
\* submitOrder, cancelOrder and modifyOrder
LockUnique(t) ==
    /\ ProcessAlive
    /\ threads[t].pc = "lock"
    /\ threads[t].op \in WriterOps
    /\ canLock(engine_mutex_)
    /\ engine_mutex_' = [engine_mutex_ EXCEPT !.writer = t]
    /\ Goto(t, "body", [entry |-> Snapshot])
    /\ UNCHANGED <<callFrame, engineData>>

\* std::shared_lock lock(engine_mutex_) of the const functions
LockShared(t) ==
    /\ ProcessAlive
    /\ threads[t].pc = "lock"
    /\ threads[t].op \in ReaderOps
    /\ canLockShared(engine_mutex_)
    /\ engine_mutex_' = [engine_mutex_ EXCEPT !.readers = @ \cup {t}]
    /\ Goto(t, "body", <<>>)
    /\ UNCHANGED <<callFrame, engineData>>

\* MatchingEngine::start after the lock
StartBody(t) ==
    /\ ProcessAlive
    /\ At(t, "start", "body")
    /\ is_running_' = TRUE
    /\ ReturnUnique(t)
    /\ UNCHANGED <<callFrame, order_books_, total_orders_processed_,
                   total_trades_executed_>>

\* MatchingEngine::addSymbol after the lock
AddSymbolBody(t) ==
    /\ ProcessAlive
    /\ At(t, "addSymbol", "body")
    /\ order_books_' = IF threads[t].symbol \notin DOMAIN order_books_
                       THEN MapPut(order_books_, threads[t].symbol, NewOrderBook)
                       ELSE order_books_
    /\ ReturnUnique(t)
    /\ UNCHANGED <<callFrame, total_orders_processed_, total_trades_executed_,
                   is_running_>>

\* MatchingEngine::removeSymbol after the lock
RemoveSymbolBody(t) ==
    /\ ProcessAlive
    /\ At(t, "removeSymbol", "body")
    /\ order_books_' =
          IF threads[t].symbol \notin DOMAIN order_books_ THEN order_books_
          ELSE IF getOrderCount(order_books_[threads[t].symbol]) > 0
               THEN order_books_
               ELSE MapErase(order_books_, threads[t].symbol)
    /\ ReturnUnique(t)
    /\ UNCHANGED <<callFrame, total_orders_processed_, total_trades_executed_,
                   is_running_>>

\* submitOrder, the three checks and book->addOrder(order); an exception of
\* a check leaves the call and releases the lock
SubmitAdd(t) ==
    /\ ProcessAlive
    /\ At(t, "submitOrder", "body")
    /\ LET order == threads[t].order
       IN  IF \/ ~is_running_
              \/ ~validateOrder(config_, order)
              \/ order.symbol \notin DOMAIN order_books_
           THEN /\ ReturnUnique(t)
                /\ UNCHANGED order_books_
           ELSE LET r == addOrder(order_books_[order.symbol], order)
                IN  /\ order_books_' = [order_books_ EXCEPT ![order.symbol] = r.book]
                    /\ Goto(t, "count_orders", [trades |-> r.trades])
                    /\ UNCHANGED engine_mutex_
    /\ UNCHANGED <<callFrame, total_orders_processed_, total_trades_executed_,
                   is_running_>>

\* submitOrder: total_orders_processed_++
SubmitCountOrders(t) ==
    /\ ProcessAlive
    /\ At(t, "submitOrder", "count_orders")
    /\ total_orders_processed_' = total_orders_processed_ + 1
    /\ Goto(t, "count_trades", <<>>)
    /\ UNCHANGED <<callFrame, order_books_, total_trades_executed_, is_running_,
                   engine_mutex_>>

\* submitOrder: total_trades_executed_ += trades.size()
SubmitCountTrades(t) ==
    /\ ProcessAlive
    /\ At(t, "submitOrder", "count_trades")
    /\ total_trades_executed_' = total_trades_executed_ + Len(threads[t].trades)
    /\ Goto(t, "broadcast", <<>>)
    /\ UNCHANGED <<callFrame, order_books_, total_orders_processed_, is_running_,
                   engine_mutex_>>

\* submitOrder: the broadcasts and the return of the trades (or the
\* exception of a callback)
SubmitBroadcast(t) ==
    /\ ProcessAlive
    /\ At(t, "submitOrder", "broadcast")
    /\ ReturnUnique(t)
    /\ UNCHANGED <<callFrame, engineData>>

\* MatchingEngine::cancelOrder after the lock: the book's cancelOrder, then
\* the return or the exception of the Order constructor
CancelBody(t) ==
    /\ ProcessAlive
    /\ At(t, "cancelOrder", "body")
    /\ order_books_' =
          IF threads[t].symbol \notin DOMAIN order_books_ THEN order_books_
          ELSE [order_books_ EXCEPT ![threads[t].symbol] =
                   cancelOrder(@, threads[t].order_id).book]
    /\ ReturnUnique(t)
    /\ UNCHANGED <<callFrame, total_orders_processed_, total_trades_executed_,
                   is_running_>>

\* modifyOrder after the lock: the book's cancelOrder; false is returned
\* when the symbol or the order is unknown
ModifyCancel(t) ==
    /\ ProcessAlive
    /\ At(t, "modifyOrder", "body")
    /\ LET symbol == threads[t].symbol
       IN  IF symbol \notin DOMAIN order_books_
           THEN ReturnUnique(t) /\ UNCHANGED order_books_
           ELSE LET c == cancelOrder(order_books_[symbol], threads[t].order_id)
                IN  IF ~c.result
                    THEN ReturnUnique(t) /\ UNCHANGED order_books_
                    ELSE /\ order_books_' = [order_books_ EXCEPT ![symbol] = c.book]
                         /\ Goto(t, "new_order", <<>>)
                         /\ UNCHANGED engine_mutex_
    /\ UNCHANGED <<callFrame, total_orders_processed_, total_trades_executed_,
                   is_running_>>

\* the order modifyOrder constructs in place of the cancelled one
ModifiedOrder(c) ==
    NewOrder(c.order_id, c.symbol, "BUY", "LIMIT", c.new_price, c.new_quantity)

\* modifyOrder: the new order, or the exception of its constructor, then
\* addOrder, the broadcasts and the return
ModifyAdd(t) ==
    /\ ProcessAlive
    /\ At(t, "modifyOrder", "new_order")
    /\ order_books_' =
          IF ~OrderCtorOk(threads[t].order_id, threads[t].symbol, "LIMIT",
                          threads[t].new_price, threads[t].new_quantity)
          THEN order_books_
          ELSE [order_books_ EXCEPT ![threads[t].symbol] =
                   addOrder(@, ModifiedOrder(threads[t])).book]
    /\ ReturnUnique(t)
    /\ UNCHANGED <<callFrame, total_orders_processed_, total_trades_executed_,
                   is_running_>>

\* OrderBook::getBestBid, getBestAsk and getSpread, with their std::optional
OrderBook_getBestBid(b) ==
    IF DOMAIN b.bids = {} THEN nullopt ELSE Some(getBestBid(b))
OrderBook_getBestAsk(b) ==
    IF DOMAIN b.asks = {} THEN nullopt ELSE Some(getBestAsk(b))
OrderBook_getSpread(b) ==
    IF OrderBook_getBestBid(b) # nullopt /\ OrderBook_getBestAsk(b) # nullopt
    THEN Some(getBestAsk(b) - getBestBid(b))
    ELSE nullopt

\* MatchingEngine::getBestBid, getBestAsk, getSpread on the books given
MatchingEngine_getBestBid(books, symbol) ==
    IF symbol \notin DOMAIN books THEN nullopt
    ELSE OrderBook_getBestBid(books[symbol])
MatchingEngine_getBestAsk(books, symbol) ==
    IF symbol \notin DOMAIN books THEN nullopt
    ELSE OrderBook_getBestAsk(books[symbol])
MatchingEngine_getSpread(books, symbol) ==
    IF symbol \notin DOMAIN books THEN nullopt
    ELSE OrderBook_getSpread(books[symbol])

\* MatchingEngine::getMarketDepth on the books given
getMarketDepth(books, symbol, levels) ==
    IF symbol \notin DOMAIN books THEN NewMarketDepth(symbol)
    ELSE [symbol |-> symbol,
          bids |-> getBidLevels(books[symbol], levels),
          asks |-> getAskLevels(books[symbol], levels),
          best_bid |-> OrderBook_getBestBid(books[symbol]),
          best_ask |-> OrderBook_getBestAsk(books[symbol]),
          spread |-> OrderBook_getSpread(books[symbol]),
          total_orders |-> getOrderCount(books[symbol])]

\* getBestBid, getBestAsk, getSpread after the lock: the value to return
BestRead(t) ==
    /\ ProcessAlive
    /\ threads[t].pc = "body"
    /\ threads[t].op \in {"getBestBid", "getBestAsk", "getSpread"}
    /\ LET symbol == threads[t].symbol
           value == IF threads[t].op = "getBestBid"
                    THEN MatchingEngine_getBestBid(order_books_, symbol)
                    ELSE IF threads[t].op = "getBestAsk"
                    THEN MatchingEngine_getBestAsk(order_books_, symbol)
                    ELSE MatchingEngine_getSpread(order_books_, symbol)
       IN  Goto(t, "return", [value |-> value])
    /\ UNCHANGED <<callFrame, engineData, engine_mutex_>>

\* getMarketDepth after the lock: the symbol is looked up and depth.bids set
DepthBids(t) ==
    /\ ProcessAlive
    /\ At(t, "getMarketDepth", "body")
    /\ IF threads[t].symbol \notin DOMAIN order_books_
       THEN Goto(t, "return", <<>>)
       ELSE threads' = [threads EXCEPT ![t].pc = "asks",
                           ![t].depth.bids =
                               getBidLevels(order_books_[threads[t].symbol],
                                            threads[t].levels)]
    /\ UNCHANGED <<callFrame, engineData, engine_mutex_>>

\* getMarketDepth: depth.asks
DepthAsks(t) ==
    /\ ProcessAlive
    /\ At(t, "getMarketDepth", "asks")
    /\ threads' = [threads EXCEPT ![t].pc = "best",
                      ![t].depth.asks =
                          getAskLevels(order_books_[threads[t].symbol],
                                       threads[t].levels)]
    /\ UNCHANGED <<callFrame, engineData, engine_mutex_>>

\* getMarketDepth: depth.best_bid, depth.best_ask, depth.spread
DepthBest(t) ==
    /\ ProcessAlive
    /\ At(t, "getMarketDepth", "best")
    /\ LET b == order_books_[threads[t].symbol]
       IN  threads' = [threads EXCEPT ![t].pc = "total",
                          ![t].depth.best_bid = OrderBook_getBestBid(b),
                          ![t].depth.best_ask = OrderBook_getBestAsk(b),
                          ![t].depth.spread = OrderBook_getSpread(b)]
    /\ UNCHANGED <<callFrame, engineData, engine_mutex_>>

\* getMarketDepth: depth.total_orders
DepthTotal(t) ==
    /\ ProcessAlive
    /\ At(t, "getMarketDepth", "total")
    /\ threads' = [threads EXCEPT ![t].pc = "return",
                      ![t].depth.total_orders =
                          getOrderCount(order_books_[threads[t].symbol])]
    /\ UNCHANGED <<callFrame, engineData, engine_mutex_>>

\* getStatistics after the lock: stats.total_orders_processed
StatsOrders(t) ==
    /\ ProcessAlive
    /\ At(t, "getStatistics", "body")
    /\ threads' = [threads EXCEPT ![t].pc = "trades",
                      ![t].stats.total_orders_processed = total_orders_processed_]
    /\ UNCHANGED <<callFrame, engineData, engine_mutex_>>

\* getStatistics: stats.total_trades_executed
StatsTrades(t) ==
    /\ ProcessAlive
    /\ At(t, "getStatistics", "trades")
    /\ threads' = [threads EXCEPT ![t].pc = "symbols",
                      ![t].stats.total_trades_executed = total_trades_executed_]
    /\ UNCHANGED <<callFrame, engineData, engine_mutex_>>

\* getStatistics: stats.total_symbols_active
StatsSymbols(t) ==
    /\ ProcessAlive
    /\ At(t, "getStatistics", "symbols")
    /\ threads' = [threads EXCEPT ![t].pc = "rates",
                      ![t].stats.total_symbols_active =
                          Cardinality(DOMAIN order_books_)]
    /\ UNCHANGED <<callFrame, engineData, engine_mutex_>>

\* the milliseconds since start_time_ the clock may give
Uptimes == {0, 1}

\* getStatistics: stats.uptime and the two rates, counter / uptime.count()
\* in unsigned integers.  With an uptime below one millisecond the division
\* is by zero: the process is ended by SIGFPE, or the quotient is 0
StatsRates(t) ==
    /\ ProcessAlive
    /\ At(t, "getStatistics", "rates")
    /\ \E uptime \in Uptimes :
          IF uptime = 0
          THEN \/ threads' = [threads EXCEPT ![t].pc = "SIGFPE"]
               \/ threads' = [threads EXCEPT ![t].pc = "return",
                                 ![t].stats.uptime = 0,
                                 ![t].stats.orders_per_second = 0,
                                 ![t].stats.trades_per_second = 0]
          ELSE threads' = [threads EXCEPT ![t].pc = "return",
                              ![t].stats.uptime = uptime,
                              ![t].stats.orders_per_second =
                                  total_orders_processed_ \div uptime,
                              ![t].stats.trades_per_second =
                                  total_trades_executed_ \div uptime]
    /\ UNCHANGED <<callFrame, engineData, engine_mutex_>>

\* the return of a const function: the shared lock is released
ReadReturn(t) ==
    /\ ProcessAlive
    /\ threads[t].pc = "return"
    /\ threads[t].op \in ReaderOps
    /\ ReturnShared(t)
    /\ UNCHANGED <<callFrame, engineData>>

\* a bid and an ask that rest side by side, a buy order that crosses the
\* ask and a market order
QuotedOrders ==
    {NewOrder(1, SymA, "BUY", "LIMIT", 1, 1),
     NewOrder(2, SymA, "SELL", "LIMIT", 2, 2),
     NewOrder(2, SymA, "BUY", "LIMIT", 2, 1),
     NewOrder(1, SymA, "SELL", "MARKET", MARKET_PRICE, 1)}

\* the calls one writer makes while the readers look at the book of SymA
BookWriterCalls ==
    {StartCall, AddSymbolCall(SymA)}
    \cup {SubmitCall(o) : o \in QuotedOrders}
    \cup {CancelCall(id, SymA) : id \in Ids}
    \cup {ModifyCall(1, SymA, p, 1) : p \in Prices}

BookReaderCalls ==
    {BestBidCall(SymA), BestAskCall(SymA), SpreadCall(SymA)}
    \cup {MarketDepthCall(SymA, n) : n \in 1..2}

NextReaders ==
    \/ \E c \in BookWriterCalls : Call("w1", c)
    \/ \E t \in Readers : \E c \in BookReaderCalls : Call(t, c)
    \/ LockUnique("w1")
    \/ StartBody("w1")
    \/ AddSymbolBody("w1")
    \/ SubmitAdd("w1")
    \/ SubmitCountOrders("w1")
    \/ SubmitCountTrades("w1")
    \/ SubmitBroadcast("w1")
    \/ CancelBody("w1")
    \/ ModifyCancel("w1")
    \/ ModifyAdd("w1")
    \/ \E t \in Readers : LockShared(t)
    \/ \E t \in Readers : BestRead(t)
    \/ \E t \in Readers : DepthBids(t)
    \/ \E t \in Readers : DepthAsks(t)
    \/ \E t \in Readers : DepthBest(t)
    \/ \E t \in Readers : DepthTotal(t)
    \/ \E t \in Readers : ReadReturn(t)

\* one thread writing to the engine and two threads reading the book
SpecReaders == Init /\ [][NextReaders]_vars

\* the calls two writers make at the same time
WriterCalls ==
    {StartCall, AddSymbolCall(SymA), RemoveSymbolCall(SymA)}
    \cup {SubmitCall(o) : o \in ObservedOrders}
    \cup {CancelCall(id, SymA) : id \in Ids}
    \cup {ModifyCall(1, SymA, p, 1) : p \in Prices}

NextWriters ==
    \/ \E t \in Writers : \E c \in WriterCalls : Call(t, c)
    \/ \E t \in Writers : LockUnique(t)
    \/ \E t \in Writers : StartBody(t)
    \/ \E t \in Writers : AddSymbolBody(t)
    \/ \E t \in Writers : RemoveSymbolBody(t)
    \/ \E t \in Writers : SubmitAdd(t)
    \/ \E t \in Writers : SubmitCountOrders(t)
    \/ \E t \in Writers : SubmitCountTrades(t)
    \/ \E t \in Writers : SubmitBroadcast(t)
    \/ \E t \in Writers : CancelBody(t)
    \/ \E t \in Writers : ModifyCancel(t)
    \/ \E t \in Writers : ModifyAdd(t)

\* two threads writing to the engine
SpecWriters == Init /\ [][NextWriters]_vars

\* the calls of the writer while the statistics are read
CountedCalls ==
    {StartCall, AddSymbolCall(SymA), AddSymbolCall(SymB)}
    \cup {SubmitCall(o) : o \in ObservedOrders}

NextStatistics ==
    \/ \E c \in CountedCalls : Call("w1", c)
    \/ \E t \in Readers : Call(t, StatisticsCall)
    \/ LockUnique("w1")
    \/ StartBody("w1")
    \/ AddSymbolBody("w1")
    \/ SubmitAdd("w1")
    \/ SubmitCountOrders("w1")
    \/ SubmitCountTrades("w1")
    \/ SubmitBroadcast("w1")
    \/ \E t \in Readers : LockShared(t)
    \/ \E t \in Readers : StatsOrders(t)
    \/ \E t \in Readers : StatsTrades(t)
    \/ \E t \in Readers : StatsSymbols(t)
    \/ \E t \in Readers : StatsRates(t)
    \/ \E t \in Readers : ReadReturn(t)

\* one thread submitting orders and two threads reading the statistics
SpecStatistics == Init /\ [][NextStatistics]_vars

\* ------------------------------------------------------------------------
\* Properties
\* ------------------------------------------------------------------------

\* every order resting in a book
Resting(b) == RestingOn(b.bids) \cup RestingOn(b.asks)

\* C1: after every submitOrder, cancelOrder and modifyOrder call of the
\* engine, however it ended, no book is crossed: every bid price present is
\* strictly below every ask price present (so a book with both sides has
\* its highest bid strictly below its lowest ask).
C1_BookNeverCrossed ==
    \A s \in DOMAIN order_books_ :
        \A pb \in DOMAIN order_books_[s].bids, pa \in DOMAIN order_books_[s].asks :
            pb < pa

\* a submitOrder returned and left a book with both bids and asks
C1_Witness ==
    /\ lastOp.op = "submitOrder"
    /\ lastOp.outcome = "returned"
    /\ \E s \in DOMAIN order_books_ :
          DOMAIN order_books_[s].bids # {} /\ DOMAIN order_books_[s].asks # {}

\* C2: every trade addOrder returns carries the price of the resting order
\* it filled: the price field of that order, which is the key of the level
\* it rested at; the trades returned are those of the fills, in order.
C2_PassivePrice ==
    lastLog # <<>> =>
        /\ lastOp.op = "addOrder"
        /\ Len(lastOp.trades) = Len(lastLog)
        /\ \A i \in DOMAIN lastLog :
              /\ lastOp.trades[i] = lastLog[i].trade
              /\ lastOp.trades[i].execution_price = lastLog[i].passive.price
              /\ lastOp.trades[i].execution_price = lastLog[i].level_price

\* an incoming LIMIT order traded at a price that is not its own
C2_Witness ==
    \E i \in DOMAIN lastLog :
        /\ lastLog[i].aggressive.type = "LIMIT"
        /\ lastLog[i].aggressive.price # lastLog[i].trade.execution_price

\* the quantities of a list of trades
RECURSIVE TradeQuantities(_)
TradeQuantities(trades) ==
    IF trades = <<>> THEN <<>>
    ELSE <<Head(trades).quantity>> \o TradeQuantities(Tail(trades))

Conserved(o) ==
    /\ o.filled + o.remaining_quantity = o.quantity
    /\ o.remaining_quantity >= 0
    /\ o.remaining_quantity <= o.quantity

\* conservation in one state: for every resting order, for the order the
\* last addOrder took and for every order that addOrder filled
ConservedNow ==
    /\ \A o \in Resting(book) : Conserved(o)
    /\ lastOp.op = "addOrder" =>
          /\ Conserved(lastOp.after)
          /\ lastOp.after.quantity = lastOp.order.quantity
          /\ SumSeq(TradeQuantities(lastOp.trades)) + lastOp.after.remaining_quantity
                = lastOp.order.quantity
          /\ \A i \in DOMAIN lastLog :
                /\ Conserved(lastLog[i].passiveAfter)
                /\ lastLog[i].passiveAfter.quantity = lastLog[i].passive.quantity
                /\ lastLog[i].passiveAfter.remaining_quantity
                      = lastLog[i].passive.remaining_quantity - lastOp.trades[i].quantity

\* C3: quantity is conserved.  For every order the book accepted, the sum
\* of the quantities of the trades that involved it plus its remainder is
\* its quantity: while it rests, when addOrder is done with it (filled,
\* discarded or rested) and when a fill takes it off the book; and no call
\* increases the remainder of an order that stays on the book.  (The trades
\* of an order are the trades it took part in; an order off the book takes
\* part in no further trade and has no remainder that could change.)
C3_QuantityConserved ==
    [][/\ ConservedNow'
       /\ \A o \in Resting(book) : \A n \in Resting(book') :
             (n.seq = o.seq /\ lastOp'.op # "clear")
                => n.remaining_quantity <= o.remaining_quantity]_vars

\* an order rests partly filled
C3_Witness ==
    \E o \in Resting(book) : o.filled > 0 /\ o.remaining_quantity > 0

\* C4: time priority within a level.  Every fill takes the order that came
\* to rest first among those resting at that price on that side at that
\* moment, and every queue holds its orders in the order they came to rest.
C4_TimePriority ==
    /\ \A i \in DOMAIN lastLog :
          \A j \in DOMAIN lastLog[i].level :
              lastLog[i].passive.seq <= lastLog[i].level[j].seq
    /\ \A m \in {book.bids, book.asks} : \A p \in DOMAIN m :
          \A j, k \in DOMAIN m[p] : j < k => m[p][j].seq < m[p][k].seq

\* a fill at a level where two or more orders rested
C4_Witness ==
    \E i \in DOMAIN lastLog : Len(lastLog[i].level) >= 2

\* C5: price priority.  Every fill is at the best price resting on that
\* side at that moment (lowest ask for an incoming BUY, highest bid for an
\* incoming SELL), and the trades of one addOrder have non-decreasing prices
\* for a BUY and non-increasing prices for a SELL.
C5_PricePriority ==
    \A i \in DOMAIN lastLog :
        LET e == lastLog[i]
        IN  /\ \A p \in e.side_prices :
                  IF e.aggressive.side = "BUY" THEN e.passive.price <= p
                  ELSE e.passive.price >= p
            /\ i > 1 =>
                  IF e.aggressive.side = "BUY"
                  THEN lastOp.trades[i - 1].execution_price <= lastOp.trades[i].execution_price
                  ELSE lastOp.trades[i - 1].execution_price >= lastOp.trades[i].execution_price

\* one addOrder traded at two prices
C5_Witness ==
    /\ Len(lastLog) >= 2
    /\ lastLog[1].trade.execution_price # lastLog[2].trade.execution_price

\* the side of the book an order belongs to, and the side it trades against
OwnSide(b, o) == IF o.side = "BUY" THEN b.bids ELSE b.asks
OtherSide(b, o) == IF o.side = "BUY" THEN b.asks ELSE b.bids

\* the locations of b2 are locations of b1, unchanged
LocationsWithin(b2, b1) ==
    \A i \in DOMAIN b2.order_locations_ :
        /\ i \in DOMAIN b1.order_locations_
        /\ b2.order_locations_[i] = b1.order_locations_[i]

\* C6: a MARKET order never rests.  After addOrder of a MARKET order no
\* market order is on the book and the order just taken is on neither side,
\* the call added no locations entry, the levels of the order's own side are
\* as they were, and if the opposite side was empty no trade is returned
\* and bids, asks, locations and the trade-id counter are as they were.
C6_MarketNeverRests ==
    [][(lastOp'.op = "addOrder" /\ lastOp'.order.type = "MARKET") =>
          /\ \A x \in Resting(book') : x.type = "LIMIT" /\ x.seq # book'.arrivals
          /\ LocationsWithin(book', book)
          /\ OwnSide(book', lastOp'.order) = OwnSide(book, lastOp'.order)
          /\ DOMAIN OtherSide(book, lastOp'.order) = {} =>
                /\ lastOp'.trades = <<>>
                /\ BookState(book') = BookState(book)]_vars

\* a MARKET order traded and was left with a remainder
C6_Witness ==
    /\ lastOp.op = "addOrder"
    /\ lastOp.order.type = "MARKET"
    /\ lastOp.trades # <<>>
    /\ lastOp.after.remaining_quantity > 0

\* the program fields of a resting order
OrderFields(o) ==
    [id |-> o.id, symbol |-> o.symbol, side |-> o.side, type |-> o.type,
     price |-> o.price, quantity |-> o.quantity,
     remaining_quantity |-> o.remaining_quantity]

\* the queue at a price of one side, empty when the level does not exist
QueueAt(m, p) == IF p \in DOMAIN m THEN m[p] ELSE <<>>

\* o rests, with remainder left, at the tail of its level in b2, which is
\* otherwise the side of b1; its location is recorded and no other location
\* is added
RestedAtTail(b1, b2, o, left) ==
    LET own == OwnSide(b1, o)
        own2 == OwnSide(b2, o)
        queue == QueueAt(own, o.price)
    IN  /\ DOMAIN own2 = DOMAIN own \cup {o.price}
        /\ \A p \in DOMAIN own : p # o.price => own2[p] = own[p]
        /\ Len(own2[o.price]) = Len(queue) + 1
        /\ SubSeq(own2[o.price], 1, Len(queue)) = queue
        /\ OrderFields(own2[o.price][Len(queue) + 1])
              = [OrderFields(o) EXCEPT !.remaining_quantity = left]
        /\ o.id \in DOMAIN b2.order_locations_
        /\ b2.order_locations_[o.id] = [price |-> o.price, side |-> o.side]
        /\ \A i \in DOMAIN b2.order_locations_ \ {o.id} :
              /\ i \in DOMAIN b1.order_locations_
              /\ b2.order_locations_[i] = b1.order_locations_[i]

\* an opposite level the LIMIT order o crosses
Crosses(b, o) ==
    \E p \in DOMAIN OtherSide(b, o) :
        IF o.side = "BUY" THEN p <= o.price ELSE p >= o.price

\* C7: addOrder of a LIMIT order.  When it crosses no opposite level, no
\* trade is returned, the opposite side and every location but its own are
\* as they were, and it rests in full.  Whenever a remainder (its quantity
\* less the quantities of the trades returned) is left, the order rests with
\* exactly that remainder at the tail of the queue at its price on its own
\* side, with its location recorded, all other queues of that side as they
\* were; when nothing is left, its own side is as it was and no location is
\* added.
C7_LimitRests ==
    [][(lastOp'.op = "addOrder" /\ lastOp'.order.type = "LIMIT") =>
          LET o == lastOp'.order
              left == o.quantity - SumSeq(TradeQuantities(lastOp'.trades))
          IN  /\ ~Crosses(book, o) =>
                    /\ lastOp'.trades = <<>>
                    /\ left = o.quantity
                    /\ OtherSide(book', o) = OtherSide(book, o)
                    /\ \A i \in DOMAIN book.order_locations_ \ {o.id} :
                          /\ i \in DOMAIN book'.order_locations_
                          /\ book'.order_locations_[i] = book.order_locations_[i]
              /\ left > 0 => RestedAtTail(book, book', o, left)
              /\ left = 0 =>
                    /\ OwnSide(book', o) = OwnSide(book, o)
                    /\ LocationsWithin(book', book)]_vars

\* a LIMIT order traded and its remainder was rested while another order
\* rests on its side
C7_Witness ==
    /\ lastOp.op = "addOrder"
    /\ lastOp.order.type = "LIMIT"
    /\ lastOp.trades # <<>>
    /\ lastOp.rested
    /\ lastOp.after.remaining_quantity < lastOp.order.quantity
    /\ DOMAIN OwnSide(book, lastOp.order) # {lastOp.order.price}

\* C8: every trade a book emits has a trade_id strictly greater than that
\* of every trade it emitted before, across addOrder, cancelOrder and clear.
C8_TradeIdsIncrease ==
    lastOp.op = "addOrder" =>
        \A i \in DOMAIN lastOp.trades :
            /\ lastOp.trades[i].trade_id > lastOp.maxBefore
            /\ i > 1 => lastOp.trades[i].trade_id > lastOp.trades[i - 1].trade_id

\* C9: once cancelOrder(id) returned true, no later trade fills a resting
\* order with that id, unless an order with that id was handed to addOrder
\* after the cancel.
C9_NoTradeAfterCancel ==
    [][lastOp'.op = "addOrder" =>
          \A i \in DOMAIN lastLog' :
              Resubmitted(book.lifecycle, lastOp'.order.id)
                  [lastLog'[i].passive.id] # "cancelled"]_vars

\* C10: the engine's cancelOrder for a symbol without a book, or for an id
\* of which no order rests by the history of the book (none ever rested, or
\* the last one was cancelled or taken off by a fill), returns false; every
\* book (bids, asks, locations, trade-id counter), the counters and the
\* callback lists are as they were and no callback is invoked.
C10_FailedCancelChangesNothing ==
    [][(/\ lastOp'.op = "engine.cancelOrder"
        /\ (~lastOp'.known \/ lastOp'.before # "rested")) =>
          /\ lastOp'.outcome = "returned"
          /\ lastOp'.result = FALSE
          /\ lastOp'.calls = <<>>
          /\ order_books_' = order_books_
          /\ UNCHANGED <<trade_callbacks_, order_callbacks_,
                         total_orders_processed_, total_trades_executed_,
                         config_, is_running_>>]_vars

\* with an order callback registered, a second cancelOrder of an id failed
\* on a book that still holds an order
C10_Witness ==
    /\ lastOp.op = "engine.cancelOrder"
    /\ lastOp.known
    /\ lastOp.before = "cancelled"
    /\ lastOp.result = FALSE
    /\ order_callbacks_ # <<>>
    /\ \E s \in DOMAIN order_books_ : Resting(order_books_[s]) # {}

\* the engine's books, counters, callbacks, configuration and running flag
\* are as they were
EngineSame ==
    /\ order_books_' = order_books_
    /\ total_orders_processed_' = total_orders_processed_
    /\ total_trades_executed_' = total_trades_executed_
    /\ trade_callbacks_' = trade_callbacks_
    /\ order_callbacks_' = order_callbacks_
    /\ config_' = config_
    /\ is_running_' = is_running_

\* C11: the engine's cancelOrder completes normally in every case, and
\* returns true exactly when an order with that id rested in the book of
\* that symbol.
C11_CancelCompletes ==
    lastOp.op = "engine.cancelOrder" =>
        /\ lastOp.outcome = "returned"
        /\ lastOp.result = (lastOp.known /\ lastOp.before = "rested")

\* C12: submitOrder fails as not running exactly when the engine is not
\* running (before the first start, and from stop to the next start); the
\* failed call leaves the books, counters and callbacks as they were, returns
\* no trade and invokes no callback.
C12_StoppedRejects ==
    [][lastOp'.op = "submitOrder" =>
          /\ (lastOp'.outcome = "runtime_error: not running") = ~is_running_
          /\ ~is_running_ =>
                /\ EngineSame
                /\ lastOp'.trades = <<>>
                /\ lastOp'.calls = <<>>]_vars

\* submitOrder failed on a stopped engine that had accepted an order
\* before and holds a resting order and a callback
C12_Witness ==
    /\ lastOp.op = "submitOrder"
    /\ lastOp.outcome = "runtime_error: not running"
    /\ total_orders_processed_ > 0
    /\ order_callbacks_ # <<>>
    /\ \E s \in DOMAIN order_books_ : Resting(order_books_[s]) # {}

ExceedsLimits(cfg, o) ==
    \/ o.quantity > cfg.max_order_quantity
    \/ o.type = "LIMIT" /\ o.price > cfg.max_order_price

\* C14: on a running engine, submitOrder of an order above max_order_quantity
\* or, for a LIMIT order, above max_order_price fails in validation, returns
\* no trade, invokes no callback and leaves the books and both counters as
\* they were; an order at or below both limits, for a symbol with a book,
\* is taken and counted.
C14_LimitsEnforced ==
    [][(lastOp'.op = "submitOrder" /\ is_running_) =>
          /\ ExceedsLimits(config_, lastOp'.order) =>
                /\ lastOp'.outcome = "invalid_argument: validation failed"
                /\ EngineSame
                /\ lastOp'.trades = <<>>
                /\ lastOp'.calls = <<>>
          /\ (/\ ~ExceedsLimits(config_, lastOp'.order)
              /\ lastOp'.order.symbol \in DOMAIN order_books_) =>
                /\ lastOp'.outcome = "returned"
                /\ total_orders_processed_' = total_orders_processed_ + 1]_vars

\* an order within the price limit and above the quantity limit was
\* rejected while an order rests in the book and a callback is registered
C14_Witness ==
    /\ lastOp.op = "submitOrder"
    /\ lastOp.outcome = "invalid_argument: validation failed"
    /\ lastOp.order.price <= config_.max_order_price
    /\ lastOp.order.quantity > config_.max_order_quantity
    /\ order_callbacks_ # <<>>
    /\ \E s \in DOMAIN order_books_ : Resting(order_books_[s]) # {}

\* C15: in every reachable state each book holds at most
\* max_orders_per_symbol resting orders.
C15_OrdersPerSymbolBounded ==
    \A s \in DOMAIN order_books_ :
        Cardinality(Resting(order_books_[s])) <= config_.max_orders_per_symbol

\* C16: a submitOrder that returns adds 1 to orders_processed and the number
\* of trades it returns to trades_executed; a submitOrder that fails changes
\* neither counter.
C16_CountersMatch ==
    [][lastOp'.op = "submitOrder" =>
          IF lastOp'.outcome = "returned"
          THEN /\ total_orders_processed_' = total_orders_processed_ + 1
               /\ total_trades_executed_'
                     = total_trades_executed_ + Len(lastOp'.trades)
          ELSE /\ total_orders_processed_' = total_orders_processed_
               /\ total_trades_executed_' = total_trades_executed_]_vars

\* the k-th callback invocation of a submitOrder with the trade callbacks
\* tc, the order callbacks oc and the trades returned: trade by trade, each
\* trade to every trade callback in registration order, then the order to
\* every order callback in registration order
ExpectedCall(tc, oc, trades, order, k) ==
    IF k <= Len(trades) * Len(tc)
    THEN [kind |-> "trade", cb |-> tc[((k - 1) % Len(tc)) + 1],
          arg |-> trades[((k - 1) \div Len(tc)) + 1]]
    ELSE [kind |-> "order", cb |-> oc[k - Len(trades) * Len(tc)], arg |-> order]

\* the book b holds the result of the matching recorded in the log: every
\* order a fill left empty is off the book, an order a fill left with a
\* remainder rests with that remainder
FillsCommitted(b, log) ==
    \A i \in DOMAIN log :
        /\ log[i].passiveAfter.remaining_quantity
              = log[i].passive.remaining_quantity - log[i].trade.quantity
        /\ IF log[i].passiveAfter.remaining_quantity = 0
           THEN \A x \in Resting(b) : x.seq # log[i].passive.seq
           ELSE \E x \in Resting(b) :
                   /\ x.seq = log[i].passive.seq
                   /\ x.remaining_quantity
                         = log[i].passiveAfter.remaining_quantity

\* the incoming order of the call op was decremented by its trades, and its
\* remainder rests in b exactly when a LIMIT order has one
IncomingCommitted(b, op) ==
    /\ op.after.remaining_quantity
          = op.order.quantity - SumSeq(TradeQuantities(op.trades))
    /\ op.rested = (op.order.type = "LIMIT" /\ op.after.remaining_quantity > 0)
    /\ IF op.rested
       THEN \E x \in Resting(b) :
               /\ x.seq = op.after.seq
               /\ x.remaining_quantity = op.after.remaining_quantity
       ELSE \A x \in Resting(b) : x.seq # op.after.seq

\* C17: a submitOrder that returns has invoked, for its trades t1..tk and
\* the trade callbacks o1..om, (t1,o1),...,(t1,om),(t2,o1),...,(tk,om), and
\* then every order callback once in registration order, and nothing else;
\* the trades passed are those of the finished matching, whose fills,
\* removals and rested remainder the book holds when the call ends.
C17_CallbackOrder ==
    [][(lastOp'.op = "submitOrder" /\ lastOp'.outcome = "returned") =>
          /\ Len(lastOp'.calls)
                = Len(lastOp'.trades) * Len(trade_callbacks_)
                  + Len(order_callbacks_)
          /\ \A k \in DOMAIN lastOp'.calls :
                lastOp'.calls[k]
                   = ExpectedCall(trade_callbacks_, order_callbacks_,
                                  lastOp'.trades, lastOp'.order, k)
          /\ FillsCommitted(order_books_'[lastOp'.order.symbol], lastLog')
          /\ IncomingCommitted(order_books_'[lastOp'.order.symbol], lastOp')]_vars

\* two trades went to two trade callbacks and then two order callbacks
C17_Witness ==
    /\ lastOp.op = "submitOrder"
    /\ lastOp.outcome = "returned"
    /\ Len(lastOp.trades) >= 2
    /\ Len(trade_callbacks_) >= 2
    /\ Len(order_callbacks_) >= 2
    /\ Len(lastOp.calls) >= 6

\* C18: a submitOrder in which a callback failed still returns its trades;
\* the fills stay in the book and both counters are incremented.
C18_ObserverFailureContained ==
    [][(/\ lastOp'.op = "submitOrder"
        /\ lastOp'.calls # <<>>
        /\ lastOp'.calls[Len(lastOp'.calls)].cb \in ThrowingCallbacks) =>
          /\ lastOp'.outcome = "returned"
          /\ total_orders_processed_' = total_orders_processed_ + 1
          /\ total_trades_executed_'
                = total_trades_executed_ + Len(lastOp'.trades)
          /\ FillsCommitted(order_books_'[lastOp'.order.symbol], lastLog')]_vars

\* C19: addSymbol(s) puts an empty book under s exactly when s is a valid
\* symbol without a book; otherwise the books are as they were.  Hence every
\* symbol with a book is one validateSymbol accepts.
C19_AddSymbolValidates ==
    [][lastOp'.op = "addSymbol" =>
          /\ order_books_'
                = IF /\ validateSymbol(lastOp'.symbol)
                     /\ lastOp'.symbol \notin DOMAIN order_books_
                  THEN MapPut(order_books_, lastOp'.symbol, NewOrderBook)
                  ELSE order_books_
          /\ \A s \in DOMAIN order_books_' : validateSymbol(s)]_vars

\* C20: removeSymbol(s) returns true exactly when s has a book without a
\* resting order, and then only that book is gone; when it returns false the
\* books are as they were.  The counters, callbacks and running flag are
\* untouched.  A book that addSymbol creates, also right after a removeSymbol
\* of the same symbol, is empty with its trade-id counter at the start.
C20_RemoveOnlyEmpty ==
    [][/\ lastOp'.op = "removeSymbol" =>
          /\ lastOp'.result = (/\ lastOp'.symbol \in DOMAIN order_books_
                               /\ Resting(order_books_[lastOp'.symbol]) = {})
          /\ order_books_' = IF lastOp'.result
                             THEN MapErase(order_books_, lastOp'.symbol)
                             ELSE order_books_
          /\ \A s \in DOMAIN order_books_ \ DOMAIN order_books_' :
                Resting(order_books_[s]) = {}
          /\ UNCHANGED <<total_orders_processed_, total_trades_executed_,
                         trade_callbacks_, order_callbacks_, config_,
                         is_running_>>
       /\ (/\ lastOp.op = "removeSymbol"
           /\ lastOp.result
           /\ lastOp'.op = "addSymbol"
           /\ lastOp'.symbol = lastOp.symbol) =>
             /\ lastOp.symbol \in DOMAIN order_books_'
             /\ Resting(order_books_'[lastOp.symbol]) = {}
             /\ BookState(order_books_'[lastOp.symbol]) = BookState(NewOrderBook)]_vars

\* the book of a symbol that had taken orders and traded was removed and
\* the symbol added again
C20_Witness ==
    /\ lastOp.op = "addSymbol"
    /\ lastOp.symbol = SymA
    /\ total_trades_executed_ > 0
    /\ SymA \in DOMAIN order_books_
    /\ order_books_[SymA].next_trade_id_ = 0

\* C21: the order modifyOrder puts in place of a resting order has the side
\* of the order it replaces.
C21_ModifyKeepsSide ==
    [][(lastOp'.op = "modifyOrder" /\ "order" \in DOMAIN lastOp') =>
          lastOp'.order.side
             = order_books_[lastOp'.symbol].order_locations_[lastOp'.id].side]_vars

\* C22: every trade a submitOrder returns has a positive quantity and a
\* buyer id different from its seller id.
C22_NoSelfTrade ==
    lastOp.op = "submitOrder" =>
        \A i \in DOMAIN lastOp.trades :
            /\ lastOp.trades[i].quantity > 0
            /\ lastOp.trades[i].buy_order_id # lastOp.trades[i].sell_order_id

\* every locations entry of b names a level of its side whose queue holds an
\* order with that id and a positive remainder
LocationsLive(b) ==
    \A id \in DOMAIN b.order_locations_ :
        LET loc == b.order_locations_[id]
            m == IF loc.side = "BUY" THEN b.bids ELSE b.asks
        IN  /\ loc.price \in DOMAIN m
            /\ \E i \in DOMAIN m[loc.price] :
                  /\ m[loc.price][i].id = id
                  /\ m[loc.price][i].remaining_quantity > 0

\* the locations entry of b under the id of x is that of x
Located(b, x) ==
    /\ x.id \in DOMAIN b.order_locations_
    /\ b.order_locations_[x.id] = [price |-> x.price, side |-> x.side]

\* C23: after every operation each locations entry names an existing level
\* of its side whose queue holds an order with that id and a positive
\* remainder; and when an operation takes a located resting order off the
\* book (filled or cancelled), the entry under its id is gone, unless the
\* same call rested its incoming order under that id.
C23_LocationsPointToOrders ==
    [][/\ LocationsLive(book')
       /\ \A x \in Resting(book) :
             (/\ Located(book, x)
              /\ \A y \in Resting(book') : y.seq # x.seq) =>
                \/ x.id \notin DOMAIN book'.order_locations_
                \/ /\ lastOp'.op = "addOrder"
                   /\ lastOp'.rested
                   /\ lastOp'.order.id = x.id]_vars

\* a fill took one located order off the book while another stays located
C23_Witness ==
    /\ lastOp.op = "addOrder"
    /\ \E i \in DOMAIN lastLog : lastLog[i].passiveAfter.remaining_quantity = 0
    /\ DOMAIN book.order_locations_ # {}
    /\ Resting(book) # {}

\* C27: no level of either side has an empty queue, and every resting order
\* has 0 < remaining <= quantity.
C27_NoEmptyLevels ==
    /\ \A p \in DOMAIN book.bids : book.bids[p] # <<>>
    /\ \A p \in DOMAIN book.asks : book.asks[p] # <<>>
    /\ \A x \in Resting(book) :
          /\ x.remaining_quantity > 0
          /\ x.remaining_quantity <= x.quantity

\* a cancel took the only order of a level while another level holds a
\* partly filled order
C27_Witness ==
    /\ lastOp.op = "cancelOrder"
    /\ lastOp.result
    /\ \E x \in Resting(book) : x.remaining_quantity < x.quantity

\* a queue, and a side, without the order x
Drop(q, x) == SelectSeq(q, LAMBDA y : y.seq # x.seq)
SideWithout(m, x) ==
    [p \in {r \in DOMAIN m : Drop(m[r], x) # <<>>} |-> Drop(m[p], x)]

\* C28: a cancelOrder(id) that returns true takes one order with that id
\* off the book; the other orders of its level keep their remainder and
\* their relative order, and the other levels and the opposite side are as
\* they were.
C28_CancelRemovesOne ==
    [][(lastOp'.op = "cancelOrder" /\ lastOp'.result) =>
          \E x \in Resting(book) :
              /\ x.id = lastOp'.id
              /\ book'.bids = SideWithout(book.bids, x)
              /\ book'.asks = SideWithout(book.asks, x)]_vars

\* C29: each trade of an addOrder call is between the incoming order and an
\* order that rested before the call, of opposite sides; buy_order_id is the
\* id of the one whose side is BUY and sell_order_id the id of the one whose
\* side is SELL.
C29_BuyerAndSeller ==
    lastOp.op = "addOrder" =>
        /\ Len(lastLog) = Len(lastOp.trades)
        /\ \A i \in DOMAIN lastLog :
              LET e == lastLog[i]
                  buyer == IF e.aggressive.side = "BUY" THEN e.aggressive
                           ELSE e.passive
                  seller == IF e.aggressive.side = "BUY" THEN e.passive
                            ELSE e.aggressive
              IN  /\ e.trade = lastOp.trades[i]
                  /\ e.aggressive.seq = lastOp.after.seq
                  /\ e.aggressive.id = lastOp.order.id
                  /\ e.passive.seq < lastOp.after.seq
                  /\ buyer.side = "BUY"
                  /\ seller.side = "SELL"
                  /\ e.trade.buy_order_id = buyer.id
                  /\ e.trade.sell_order_id = seller.id

\* an incoming SELL order traded with two resting BUY orders
C29_Witness ==
    /\ lastOp.op = "addOrder"
    /\ lastOp.order.side = "SELL"
    /\ Len(lastOp.trades) >= 2

\* levels is what a listing of the map m of the given side has to return
\* for max_levels
ListedRight(m, side, levels, max_levels) ==
    /\ Len(levels) = MinOf(max_levels, Cardinality(DOMAIN m))
    /\ \A i \in DOMAIN levels :
          /\ levels[i].price \in DOMAIN m
          /\ Cardinality({p \in DOMAIN m :
                IF side = "BUY" THEN p > levels[i].price
                ELSE p < levels[i].price}) = i - 1
          /\ levels[i].quantity
                = SumSeq([k \in DOMAIN m[levels[i].price] |->
                             m[levels[i].price][k].remaining_quantity])

\* C26: getBidLevels(n) and getAskLevels(n) return min(n, number of levels of
\* the side) entries, none for n = 0, the i-th entry being the i-th best
\* price of the side with the sum of the remainders resting at it.
C26_LevelsListed ==
    /\ lastOp.op = "getBidLevels" =>
          ListedRight(book.bids, "BUY", lastOp.levels, lastOp.max_levels)
    /\ lastOp.op = "getAskLevels" =>
          ListedRight(book.asks, "SELL", lastOp.levels, lastOp.max_levels)

\* thread t of th holds engine_mutex_: it is past the lock of its call
Inside(th, t) == th[t].pc \notin {"idle", "lock"}

\* what the const function thread t is in returns when it runs on books
Returns(t, books) ==
    IF threads[t].op = "getMarketDepth"
    THEN threads[t].depth
            = getMarketDepth(books, threads[t].symbol, threads[t].levels)
    ELSE threads[t].value
            = IF threads[t].op = "getBestBid"
              THEN MatchingEngine_getBestBid(books, threads[t].symbol)
              ELSE IF threads[t].op = "getBestAsk"
              THEN MatchingEngine_getBestAsk(books, threads[t].symbol)
              ELSE MatchingEngine_getSpread(books, threads[t].symbol)

\* C24: with one writer and several readers, while a reader is in
\* getMarketDepth, getBestBid, getBestAsk or getSpread no write is under
\* way, so the books it reads are those left by the last completed write;
\* what it returns is what the function gives on those books, all fields of
\* a MarketDepth from the same books; and a reader waiting for the lock can
\* take it whenever no writer holds it, other readers holding it or not.
C24_ReadersSeeWrittenStates ==
    /\ [](\A t \in Readers :
             (threads[t].pc = "lock" /\ engine_mutex_.writer = "none"
                 /\ ProcessAlive)
                => ENABLED LockShared(t))
    /\ [][/\ \A t \in Readers :
                Inside(threads', t) => \A w \in Writers : ~Inside(threads', w)
          /\ \A t \in Readers :
                (threads[t].pc = "return" /\ threads'[t] = Idle)
                    => Returns(t, order_books_)]_vars

\* a reader is about to return a depth with bids and asks while the other
\* reader is inside too and the writer waits for the lock
C24_Witness ==
    /\ At("r1", "getMarketDepth", "return")
    /\ threads["r1"].depth.bids # <<>>
    /\ threads["r1"].depth.asks # <<>>
    /\ Inside(threads, "r2")
    /\ threads["w1"].pc = "lock"

\* the engine data and the trades returned when the call c runs alone on
\* the engine data e
Sequential(c, e) ==
    LET same == e @@ [returned |-> <<>>]
        books == e.order_books_
    IN
    IF c.op = "start" THEN [same EXCEPT !.is_running_ = TRUE]
    ELSE IF c.op = "addSymbol"
    THEN IF c.symbol \in DOMAIN books THEN same
         ELSE [same EXCEPT !.order_books_ = MapPut(books, c.symbol, NewOrderBook)]
    ELSE IF c.op = "removeSymbol"
    THEN IF c.symbol \notin DOMAIN books THEN same
         ELSE IF getOrderCount(books[c.symbol]) > 0 THEN same
         ELSE [same EXCEPT !.order_books_ = MapErase(books, c.symbol)]
    ELSE IF c.op = "submitOrder"
    THEN IF \/ ~e.is_running_
            \/ ~validateOrder(config_, c.order)
            \/ c.order.symbol \notin DOMAIN books
         THEN same
         ELSE LET r == addOrder(books[c.order.symbol], c.order)
              IN  [same EXCEPT !.order_books_[c.order.symbol] = r.book,
                               !.orders = @ + 1,
                               !.trades = @ + Len(r.trades),
                               !.returned = r.trades]
    ELSE IF c.symbol \notin DOMAIN books THEN same
    ELSE IF c.op = "cancelOrder"
    THEN [same EXCEPT !.order_books_[c.symbol] = cancelOrder(@, c.order_id).book]
    ELSE IF ~cancelOrder(books[c.symbol], c.order_id).result THEN same
    ELSE [same EXCEPT !.order_books_[c.symbol] =
             addOrder(cancelOrder(@, c.order_id).book, ModifiedOrder(c)).book]

\* C25: of the threads calling start, addSymbol, removeSymbol, submitOrder,
\* cancelOrder and modifyOrder at most one is past its lock at a time, and
\* when a call ends the books (with their trade ids), the counters and the
\* trades it returns are those of the call run alone on the engine as it
\* was when the call took the lock: the calls act one after another in the
\* order of their locks.
C25_WritersSerialised ==
    [][/\ Cardinality({t \in Writers : Inside(threads', t)}) <= 1
       /\ \A t \in Writers :
             (Inside(threads, t) /\ threads'[t] = Idle) =>
                LET e == Sequential(threads[t], threads[t].entry)
                IN  /\ order_books_' = e.order_books_
                    /\ total_orders_processed_' = e.orders
                    /\ total_trades_executed_' = e.trades
                    /\ is_running_' = e.is_running_
                    /\ threads[t].op = "submitOrder" =>
                          /\ threads[t].pc = "body" => e.returned = <<>>
                          /\ threads[t].pc # "body" =>
                                threads[t].trades = e.returned]_vars

\* a submitOrder is about to return a trade while the other writer waits
\* for the lock with a cancelOrder
C25_Witness ==
    /\ At("w1", "submitOrder", "broadcast")
    /\ threads["w1"].trades # <<>>
    /\ At("w2", "cancelOrder", "lock")

\* C30: what getStatistics returns are the values total_orders_processed_
\* and total_trades_executed_ and the number of books have together at its
\* return, and while it reads them no submitOrder is between its lock and
\* its return.
C30_StatisticsConsistent ==
    [][\A t \in Readers :
          /\ (Inside(threads', t) /\ threads'[t].op = "getStatistics") =>
                \A w \in Writers : ~Inside(threads', w)
          /\ (At(t, "getStatistics", "return") /\ threads'[t] = Idle) =>
                /\ threads[t].stats.total_orders_processed = total_orders_processed_
                /\ threads[t].stats.total_trades_executed = total_trades_executed_
                /\ threads[t].stats.total_symbols_active
                      = Cardinality(DOMAIN order_books_)]_vars

\* getStatistics is about to return the counters of one submission and two
\* symbols while the other reader is inside and the next submitOrder waits
\* for the lock
C30_Witness ==
    /\ At("r1", "getStatistics", "return")
    /\ threads["r1"].stats.total_orders_processed = 1
    /\ threads["r1"].stats.total_symbols_active = 2
    /\ Inside(threads, "r2")
    /\ At("w1", "submitOrder", "lock")

\* C31: getStatistics completes for every uptime, without a division error,
\* and with an uptime of 0 milliseconds it returns orders_per_second = 0 and
\* trades_per_second = 0.
C31_StatisticsCompletes ==
    \A t \in Readers :
        /\ threads[t].pc # "SIGFPE"
        /\ (At(t, "getStatistics", "return") /\ threads[t].stats.uptime = 0) =>
              /\ threads[t].stats.orders_per_second = 0
              /\ threads[t].stats.trades_per_second = 0

\* the first check of submitOrder, in the order stopped engine, invalid
\* symbol, risk limit, unknown symbol, that the order o fails now
Failure(o) ==
    IF ~is_running_ THEN "stopped"
    ELSE IF ~validateSymbol(o.symbol) THEN "invalid symbol"
    ELSE IF ExceedsLimits(config_, o) THEN "risk limit"
    ELSE IF o.symbol \notin DOMAIN order_books_ THEN "unknown symbol"
    ELSE "none"

\* the submitOrder call recorded in op failed
Failed(op) ==
    /\ op.op = "submitOrder"
    /\ op.outcome \notin {"returned", "callback exception"}

\* the check the failed call recorded in op failed: the engine is as that
\* call found it
FailureOf(op) == IF "order" \in DOMAIN op THEN Failure(op.order) ELSE "stopped"

\* C32: a submitOrder that fails one of the four checks fails, and of two
\* submitOrder calls in a row that fail different first checks (stopped
\* engine, invalid symbol, risk limit, unknown symbol) the outcomes differ.
C32_FailuresDistinguished ==
    [][lastOp'.op = "submitOrder" =>
          /\ ("order" \in DOMAIN lastOp' /\ Failure(lastOp'.order) # "none")
                => Failed(lastOp')
          /\ (Failed(lastOp) /\ Failed(lastOp')
                /\ FailureOf(lastOp) # FailureOf(lastOp'))
                => lastOp.outcome # lastOp'.outcome]_vars

\* C33: the matching loop of an addOrder call ends after at most as many
\* trades as orders rested on the opposite side when the call began, and
\* each of its trades has a quantity > 0 and fills the resting head order or
\* the incoming order completely.
C33_MatchingTerminates ==
    [][lastOp'.op = "addOrder" =>
          /\ Len(lastOp'.trades)
                <= Cardinality(RestingOn(OppositeSide(book, lastOp'.order)))
          /\ Len(lastLog') = Len(lastOp'.trades)
          /\ \A i \in DOMAIN lastLog' :
                /\ lastLog'[i].trade.quantity > 0
                /\ \/ lastLog'[i].passiveAfter.remaining_quantity = 0
                   \/ lastLog'[i].aggressive.remaining_quantity
                         = lastLog'[i].trade.quantity]_vars

\* an incoming BUY order was filled by two trades, one with each order that
\* rested on the asks
C33_Witness ==
    /\ lastOp.op = "addOrder"
    /\ lastOp.order.side = "BUY"
    /\ Len(lastOp.trades) = 2
    /\ lastOp.after.remaining_quantity = 0
    /\ DOMAIN book.asks = {}

\* the calls of the engine that work on the book of one symbol
BookCalls == {"submitOrder", "engine.cancelOrder", "modifyOrder"}

\* the symbol whose book the call recorded in op changed, <<>> when it
\* changed none
SymbolOf(op) ==
    IF "symbol" \in DOMAIN op THEN op.symbol
    ELSE IF "after" \in DOMAIN op THEN op.order.symbol
    ELSE <<>>

\* C34: a submitOrder, cancelOrder or modifyOrder call for symbol s leaves
\* the table of books with the same symbols and the book of every other
\* symbol as it was, and each of its trades is between two orders whose
\* symbol is s.
C34_OtherBooksUntouched ==
    [][lastOp'.op \in BookCalls =>
          /\ DOMAIN order_books_' = DOMAIN order_books_
          /\ \A s \in DOMAIN order_books_ :
                s # SymbolOf(lastOp') => order_books_'[s] = order_books_[s]
          /\ \A i \in DOMAIN lastLog' :
                /\ lastLog'[i].aggressive.symbol = SymbolOf(lastOp')
                /\ lastLog'[i].passive.symbol = SymbolOf(lastOp')]_vars

\* a submitOrder traded in the book of one symbol while orders rest in the
\* book of the other
C34_Witness ==
    /\ lastOp.op = "submitOrder"
    /\ lastOp.trades # <<>>
    /\ \E s \in DOMAIN order_books_ :
          s # lastOp.order.symbol /\ Resting(order_books_[s]) # {}

\* C35: the ids with a locations entry are the ids of the resting orders,
\* getOrderCount is the number of locations entries, and a cancelOrder that
\* returned true left no resting order with its id.
C35_EveryOrderCancellable ==
    /\ DOMAIN book.order_locations_ = {x.id : x \in Resting(book)}
    /\ getOrderCount(book) = Cardinality(DOMAIN book.order_locations_)
    /\ (lastOp.op = "cancelOrder" /\ lastOp.result) =>
          \A x \in Resting(book) : x.id # lastOp.id

\* C36: while the engine is not running, a submitOrder, cancelOrder or
\* modifyOrder call returns no trade, invokes no trade callback and hands no
\* order to a book.
C36_StoppedEngineInert ==
    [][(~is_running_ /\ lastOp'.op \in BookCalls) =>
          /\ "trades" \in DOMAIN lastOp' => lastOp'.trades = <<>>
          /\ \A i \in DOMAIN lastOp'.calls : lastOp'.calls[i].kind # "trade"
          /\ "after" \notin DOMAIN lastOp']_vars

\* the invocations of the trade callback cb among calls
TradeCalls(calls, cb) ==
    Cardinality({j \in DOMAIN calls : calls[j].kind = "trade" /\ calls[j].cb = cb})

\* C37: a submitOrder, cancelOrder or modifyOrder call adds to
\* total_trades_executed_ the number of trades it produced, which is the
\* number of trades it broadcast to each registered trade callback.
C37_EveryTradeCounted ==
    [][lastOp'.op \in BookCalls =>
          /\ "trades" \in DOMAIN lastOp' =>
                total_trades_executed_' = total_trades_executed_ + Len(lastOp'.trades)
          /\ \A i \in DOMAIN trade_callbacks_ :
                total_trades_executed_'
                   = total_trades_executed_
                        + TradeCalls(lastOp'.calls, trade_callbacks_[i])]_vars

\* C38: a modifyOrder that returns false or ends in the error of an invalid
\* new price or quantity leaves every book as it was.
C38_ModifyAllOrNothing ==
    [][(/\ lastOp'.op = "modifyOrder"
        /\ \/ lastOp'.outcome = "invalid_argument: Order constructor"
           \/ lastOp'.outcome = "returned" /\ ~lastOp'.result) =>
          order_books_' = order_books_]_vars

\* C39: the engine never holds more order books than config_.max_symbols.
C39_SymbolsCapped == Cardinality(DOMAIN order_books_) <= config_.max_symbols

\* the calls that administer the engine
AdminCalls ==
    {"start", "stop", "resetStatistics", "updateConfig",
     "registerTradeCallback", "registerOrderCallback", "unregisterAllCallbacks"}

\* C40: start, stop, resetStatistics, updateConfig, registerTradeCallback,
\* registerOrderCallback and unregisterAllCallbacks leave the symbols and
\* every order book as they were, so the orders resting at a stop rest with
\* the same priority after the next start; start and stop also leave both
\* counters as they were.
C40_AdminKeepsBooks ==
    [][/\ lastOp'.op \in AdminCalls => order_books_' = order_books_
       /\ lastOp'.op \in {"start", "stop"} =>
             /\ total_orders_processed_' = total_orders_processed_
             /\ total_trades_executed_' = total_trades_executed_]_vars

\* the engine was started again with an order resting and both counters
\* above zero
C40_Witness ==
    /\ lastOp.op = "start"
    /\ is_running_
    /\ \E s \in DOMAIN order_books_ : getOrderCount(order_books_[s]) > 0
    /\ total_orders_processed_ > 0
    /\ total_trades_executed_ > 0

====
